---- MODULE Spec2Model ----
(***************************************************************************)
(* A model of sAsync's AccessBroker (sasync/database.py): the startup      *)
(* sequence, the transact decorator, the transaction envelope, nested-call *)
(* detection and shutdown, for one broker that owns its queue (Spec,        *)
(* ApiSpec); row iteration through handleResult and selectorator on a      *)
(* running broker (IterSpec); the queue Factory of sasync/queue.py with    *)
(* the brokers that share its queues (FacSpec) and with its global queue   *)
(* (GlobalSpec); the transact calls with the raw and consumer keywords     *)
(* (ResultSpec); two brokers whose methods call each other's (PairSpec);   *)
(* and the PersistentDict of sasync/pdict.py on its item store (PdSpec).   *)
(*                                                                         *)
(* Two threads exist.  The reactor (Twisted main loop) runs every callback *)
(* to its next yield as one atomic step; the queue's worker thread runs    *)
(* the tasks, one at a time, in steps that interleave with the reactor's.  *)
(* The DeferredLock and the ThreadQueue come from the asynqueue and        *)
(* Twisted libraries; what the broker relies on is modelled here:          *)
(*   - DeferredLock: acquire() fires at once when the lock is free, else   *)
(*     joins a FIFO of waiters; release() hands the lock to the oldest     *)
(*     waiter and runs its callback synchronously;                         *)
(*   - ThreadQueue: call() puts a task on a priority heap (doNext, then    *)
(*     niceness, then doLast; FIFO among equals) and raises once the queue *)
(*     has been shut down; one worker thread runs one task at a time;      *)
(*     shutdown() lets the queued tasks run and then stops.                *)
(***************************************************************************)
EXTENDS Integers, Sequences, FiniteSets, TLC

VARIABLES
    engineName,   \* q.engine.name: "sqlite" or another dialect
    spc,          \* where AccessBroker.__init__.startup stands
    running,      \* self.running
    singleton,    \* self._singleton: "unset", "yes" or "no"
    qstate,       \* self.q: "none" (no attribute yet), "running", "stopping", "stopped"
    connection,   \* self.connection: "none", "open", "closed"
    locked,       \* self.lock.locked
    holder,       \* who holds self.lock
    waiting,      \* self.lock.waiting, oldest first
    heap,         \* the queue's pending tasks, in order of submission
    wk,           \* the worker thread: the task it runs and where it stands
    req,          \* the transact calls made so far
    aux,          \* the waitUntilRunning, connect and deferToQueue calls made so far
    shut,         \* the shutdown() calls made so far
    pending,      \* rows written on the connection and not yet committed
    committed,    \* rows committed
    log,          \* begin/commit/rollback/close as the connection saw them
    nextId,       \* number of the next transact call
    itr,          \* row iteration on a running broker: table, lock, queue, iterations
    fac,          \* the queue Factory with the brokers that share its queues
    two,          \* two running brokers whose methods call each other's
    pd            \* a PersistentDict with its item store and its database rows

vars == <<engineName, spc, running, singleton, qstate, connection, locked, holder,
          waiting, heap, wk, req, aux, shut, pending, committed, log, nextId,
          itr, fac, two, pd>>

\* The variables of the single broker of the first part of the model.
brokerVars ==
    <<engineName, spc, running, singleton, qstate, connection, locked, holder,
      waiting, heap, wk, req, aux, shut, pending, committed, log, nextId>>

\* Bounds of the model.
MaxTxn == 2
MaxShutdown == 2
MaxAux == 1

Txns == 1..MaxTxn
Shutdowns == 1..MaxShutdown
Auxs == 1..MaxAux
\* The task of the first transaction (firstAsTransaction) is numbered 0.
FirstTask == 0

\* The transact-decorated methods of a broker subclass, by what they do:
\* return or raise, and whether they call another transact-decorated
\* method of the same broker on the way (one that returns or one that raises).
Methods ==
    { [body |-> "return", calls |-> "none"],     \* MyBroker.fakeTransaction
      [body |-> "raise",  calls |-> "none"],     \* MyBroker.erroneousTransaction
      [body |-> "return", calls |-> "return"],   \* MyBroker.nestedTransaction
      [body |-> "return", calls |-> "raise"] }   \* a nested call that raises

NoMethod == [body |-> "none", calls |-> "none"]

\* The keywords of a transact call: the scheduling keywords; ignore, which
\* substituteFunction does not know and leaves among the keywords that reach
\* the method; and raw and consumer, which substituteFunction reads itself.
NoOption == [niceness |-> 0, doNext |-> FALSE, doLast |-> FALSE, ignore |-> FALSE,
             raw |-> FALSE, consumer |-> FALSE]

Options ==
    { NoOption,
      [NoOption EXCEPT !.niceness = 10],
      [NoOption EXCEPT !.doNext = TRUE],
      [NoOption EXCEPT !.doLast = TRUE],
      [NoOption EXCEPT !.ignore = TRUE] }

\* The calls with the raw keyword, a consumer, both or neither.
ResultOptions ==
    { [NoOption EXCEPT !.raw = a, !.consumer = b] : a, b \in BOOLEAN }

\* The queue's priority of a call: doNext ahead of every niceness, doLast behind.
priority(opt) ==
    IF opt.doNext THEN -100 ELSE IF opt.doLast THEN 100 ELSE opt.niceness

\* A transact call: where it stands (st), its method and keywords, the call
\* it was made from (parent) or makes (child), how its function ended (fret),
\* the result its caller gets (out), and records of its history: whether it
\* was made before the startup had completed (early) or after shutdown() had
\* cleared the running flag (late), and which calls were waiting, at the
\* lock or in the queue, when its transaction began; how many times its
\* function was called (runs) and its handle resolved (fired).
NoReq == [st |-> "new", m |-> NoMethod, opt |-> NoOption, parent |-> 0,
          child |-> 0, out |-> "none", fret |-> "none", early |-> FALSE,
          late |-> FALSE, behind |-> {}, runs |-> 0, fired |-> 0]

\* A waitUntilRunning ("wait"), connect ("connect") or deferToQueue ("defer")
\* call: where it stands, what the deferred function does (body), the
\* result its caller gets, whether it was made before the startup had
\* completed, after shutdown() had cleared the flag, or before the broker had
\* its queue (noq), and the two counts.
NoAux == [kind |-> "none", st |-> "new", body |-> "none", out |-> "none",
          early |-> FALSE, late |-> FALSE, noq |-> FALSE, runs |-> 0, fired |-> 0]

\* The queue's task of such a call is numbered after the transactions.
AuxTask(k) == MaxTxn + k

NoHolder == [kind |-> "none", id |-> 0]
Idle == [task |-> -1, pc |-> "idle", raised |-> FALSE]

\* No row iteration, no Factory call, no call between two brokers and no
\* PersistentDict call has been made.
NoIteration == [its |-> << >>]
NoFactory == [queues |-> << >>]
NoPair == [calls |-> << >>]
NoDict == [data |-> << >>]

\* The state as one record, so that a handler is a function from state to state.
St ==
    [engineName |-> engineName, spc |-> spc, running |-> running,
     singleton |-> singleton, qstate |-> qstate, connection |-> connection,
     locked |-> locked, holder |-> holder, waiting |-> waiting, heap |-> heap,
     wk |-> wk, req |-> req, aux |-> aux, shut |-> shut, pending |-> pending,
     committed |-> committed, log |-> log, nextId |-> nextId]

Install(s) ==
    /\ engineName' = s.engineName
    /\ spc' = s.spc
    /\ running' = s.running
    /\ singleton' = s.singleton
    /\ qstate' = s.qstate
    /\ connection' = s.connection
    /\ locked' = s.locked
    /\ holder' = s.holder
    /\ waiting' = s.waiting
    /\ heap' = s.heap
    /\ wk' = s.wk
    /\ req' = s.req
    /\ aux' = s.aux
    /\ shut' = s.shut
    /\ pending' = s.pending
    /\ committed' = s.committed
    /\ log' = s.log
    /\ nextId' = s.nextId
    /\ UNCHANGED <<itr, fac, two, pd>>

\* AccessBroker.singleton: computed on first use and cached; an engine that
\* does not exist yet counts as sqlite.
readSingleton(s) ==
    IF s.singleton # "unset" THEN s
    ELSE LET name == IF s.qstate = "none" THEN "sqlite" ELSE s.engineName
         IN  [s EXCEPT !.singleton = IF name = "sqlite" THEN "yes" ELSE "no"]

\* Variants of isNested: every call taken for nested, and none.
isNestedAlways(stack) == TRUE

isNestedNever(stack) == FALSE

\* isNested: walk the callers' frames, outwards; nested when one of them is
\* the code of transaction() or of self.first.
isNested(stack) ==
    \E i \in 1..Len(stack) : stack[i] = "transaction" \/ stack[i] = "first"

\* self.q.call(transaction, self, f, ...) with the result's errback caught:
\* the task joins the heap; a queue that has been shut down raises instead,
\* which fails the call's handle from inside doTransaction.
qcall(r, s) ==
    IF s.qstate = "running"
    THEN [s EXCEPT !.heap = Append(@, [id |-> r, prio |-> priority(s.req[r].opt)]),
                   !.req[r].st = "queued"]
    ELSE [s EXCEPT !.req[r].st = "done", !.req[r].out = "fail",
                   !.req[r].fired = @ + 1]

\* q.call(func, ...) of connect() and deferToQueue(): the same, for a task
\* that is not a transaction.
qcallAux(k, s) ==
    IF s.qstate = "running"
    THEN [s EXCEPT !.heap = Append(@, [id |-> AuxTask(k), prio |-> 0]),
                   !.aux[k].st = "queued"]
    ELSE [s EXCEPT !.aux[k].st = "done", !.aux[k].out = "fail",
                   !.aux[k].fired = @ + 1]

\* What follows waitUntilRunning(): its own handle resolves; connect() and
\* deferToQueue() go on to the queue.
afterRunning(k, s) ==
    IF s.aux[k].kind = "wait"
    THEN [s EXCEPT !.aux[k].st = "done", !.aux[k].out = "ok",
                   !.aux[k].fired = @ + 1]
    ELSE qcallAux(k, s)

\* closeConnection of shutdown(), run by the reactor.
closeConnection(s) ==
    IF s.connection = "none" THEN s
    ELSE [s EXCEPT !.connection = "closed",
                   !.log = Append(@, <<"close", 0>>)]

\* qFactory.kill(self.q): q.shutdown() for a queue of the broker's own.
kill(k, s) ==
    IF s.qstate = "running"
    THEN [s EXCEPT !.qstate = "stopping", !.shut[k] = "killing"]
    ELSE IF s.qstate = "stopping"
    THEN [s EXCEPT !.shut[k] = "killing"]
    ELSE [s EXCEPT !.shut[k] = "done"]

RECURSIVE release(_), acquired(_, _)

\* DeferredLock.release: the oldest waiter gets the lock and its callback
\* runs at once, inside this call.
release(s) ==
    IF s.waiting = << >>
    THEN [s EXCEPT !.locked = FALSE, !.holder = NoHolder]
    ELSE acquired(Head(s.waiting), [s EXCEPT !.waiting = Tail(@)])

\* What a caller does when its lock.acquire() fires.
\*  - doTransaction: a broker that is not a singleton gives the lock back
\*    before it queues the transaction; a singleton keeps it.
\*  - shutdown: close the connection, leave the lock context, kill the queue.
\*  - waitUntilRunning: give the lock back, and the caller goes on.
acquired(w, s) ==
    LET s1 == [s EXCEPT !.locked = TRUE, !.holder = w]
    IN  IF w.kind = "txn"
        THEN IF s1.singleton = "yes"
             THEN qcall(w.id, s1)
             ELSE qcall(w.id, release(s1))
        ELSE IF w.kind = "aux"
        THEN afterRunning(w.id, release(s1))
        ELSE kill(w.id, release(closeConnection(s1)))

\* DeferredLock.acquire as the caller sees it.
acquire(w, s) ==
    IF s.locked
    THEN [s EXCEPT !.waiting = Append(@, w)]
    ELSE acquired(w, s)

\* A variant of waitUntilRunning that does not wait for the lock.
waitUntilRunningNoLock(k, s) == afterRunning(k, s)

\* waitUntilRunning: a broker that is running lets the caller go on at
\* once; otherwise the caller takes the lock and gives it back.
waitUntilRunning(k, s) ==
    IF s.running
    THEN afterRunning(k, s)
    ELSE acquire([kind |-> "aux", id |-> k], [s EXCEPT !.aux[k].st = "gate"])

\* A variant of connect that never waits.
connectNoWait(k, s) == qcallAux(k, s)

\* connect: a broker that has no queue yet waits until it is running; one
\* that has its queue asks the queue for a connection at once.
connect(k, s) ==
    IF s.qstate = "none" THEN waitUntilRunning(k, s) ELSE qcallAux(k, s)

\* deferToQueue: q.call(func, ...) once waitUntilRunning() has fired.
deferToQueue(k, s) == waitUntilRunning(k, s)

\* A variant of runAux in which a function that raises takes the queued
\* transactions down with it: each gets the failure as its result.
runAuxFailsAll(k, s) ==
    LET raises == s.aux[k].kind = "defer" /\ s.aux[k].body = "raise"
        hit == IF raises THEN {s.heap[i].id : i \in 1..Len(s.heap)} \cap Txns ELSE {}
    IN  [s EXCEPT !.aux[k].st = "posted",
                  !.aux[k].runs = IF s.aux[k].kind = "defer" THEN @ + 1 ELSE @,
                  !.aux[k].out = IF raises THEN "fail" ELSE "ok",
                  !.heap = SelectSeq(@, LAMBDA e : e.id \notin hit),
                  !.req = [r \in Txns |->
                              IF r \in hit
                              THEN [s.req[r] EXCEPT !.st = "posted", !.out = "fail"]
                              ELSE s.req[r]]]

\* The worker runs the task of a connect() or deferToQueue() call: the
\* engine's contextual_connect, or the caller's function, whose exception
\* becomes the failure of that call's result and of nothing else.
runAux(k, s) ==
    [s EXCEPT !.aux[k].st = "posted",
              !.aux[k].runs = IF s.aux[k].kind = "defer" THEN @ + 1 ELSE @,
              !.aux[k].out = IF s.aux[k].kind = "defer" /\ s.aux[k].body = "raise"
                             THEN "fail" ELSE "ok"]

\* The frames that call a transact-decorated method: user code run by the
\* reactor, a method run by transaction() in the worker, and first().
ReactorStack == <<"caller">>
TransactionStack == <<"f", "transaction", "worker">>

\* A variant of doTransaction that never waits for the lock.
doTransactionNoGate(r, s) == qcall(r, readSingleton(s))

\* doTransaction up to its first yield that waits: a singleton broker, or
\* one that is not running, takes the lock first; any other goes to the queue.
doTransaction(r, s) ==
    LET s1 == readSingleton(s)
    IN  IF s1.singleton = "yes" \/ ~s1.running
        THEN acquire([kind |-> "txn", id |-> r], [s1 EXCEPT !.req[r].st = "gate"])
        ELSE qcall(r, s1)

\* return f(self, *args, **kw): the nested call runs at once, in the caller's
\* thread, on the connection's open transaction.
direct(r, s) ==
    IF s.connection # "open"
    THEN [s EXCEPT !.req[r].st = "direct", !.req[r].fret = "raised",
                   !.req[r].out = "raised", !.req[r].runs = @ + 1]
    ELSE [s EXCEPT !.pending = @ \cup {r},
                   !.req[r].st = "direct",
                   !.req[r].runs = @ + 1,
                   !.req[r].fret = IF s.req[r].m.body = "raise" THEN "raised" ELSE "returned",
                   !.req[r].out = IF s.req[r].m.body = "raise" THEN "raised" ELSE "plain"]

\* raise ValueError(...): the call ends in its caller with the exception; it
\* returns no handle.
raiseValueError(r, s) ==
    [s EXCEPT !.req[r].st = "refused", !.req[r].out = "ValueError"]

\* A variant of substituteFunction that does not look at raw and consumer.
substituteFunctionAnyKeywords(r, stack, s) ==
    IF isNested(stack) THEN direct(r, s) ELSE doTransaction(r, s)

\* substituteFunction: what calling a transact-decorated method does.
substituteFunction(r, stack, s) ==
    IF s.req[r].opt.consumer /\ s.req[r].opt.raw
    THEN raiseValueError(r, s)
    ELSE IF isNested(stack) THEN direct(r, s) ELSE doTransaction(r, s)

\* func(*t_args, **t_kw) inside transaction(): the method writes its row,
\* calls the other method if it has one to call, and returns or raises. An
\* exception of the nested call is not caught by the method. A call with
\* the ignore keyword hands the method a keyword it does not take: the call
\* raises before the method has done anything.
callFunc(r, s) ==
    IF s.req[r].opt.ignore \/ s.connection # "open"
    THEN [s EXCEPT !.req[r].fret = "raised", !.req[r].runs = @ + 1]
    ELSE LET s1 == [s EXCEPT !.pending = @ \cup {r}, !.req[r].runs = @ + 1]
             c  == s.req[r].child
             s2 == IF c = 0 THEN s1 ELSE substituteFunction(c, TransactionStack, s1)
             up == c # 0 /\ s2.req[c].out = "raised"
         IN  [s2 EXCEPT !.req[r].fret =
                  IF up \/ s.req[r].m.body = "raise" THEN "raised" ELSE "returned"]

\* The task the worker takes next: the best priority, the oldest among equals.
Pick(h) ==
    CHOOSE i \in 1..Len(h) :
        \A j \in 1..Len(h) :
            \/ h[j].prio > h[i].prio
            \/ (h[j].prio = h[i].prio /\ j >= i)

Remove(h, i) == SubSeq(h, 1, i - 1) \o SubSeq(h, i + 1, Len(h))

\* trans = self.connection.begin(), as the worker starts a task. A closed
\* connection makes the task fail before the function is called.
begin(t, s) ==
    IF s.connection # "open"
    THEN IF t = FirstTask
         THEN [s EXCEPT !.spc = "firstFailed"]
         ELSE [s EXCEPT !.req[t].st = "posted", !.req[t].out = "fail"]
    ELSE LET s1 == [s EXCEPT !.log = Append(@, <<"begin", t>>),
                             !.wk = [task |-> t, pc |-> "body", raised |-> FALSE]]
         IN  IF t = FirstTask THEN s1
             ELSE [s1 EXCEPT !.req[t].st = "exec",
                             !.req[t].behind =
                                 {x \in Txns \ {t} : /\ s.req[x].parent = 0
                                                     /\ s.req[x].st \in {"gate", "queued"}}]

\* A variant of finish without the except branch: it commits whatever the
\* function did.
finishNoRollback(t, raised, s) ==
    LET ok == s.connection = "open"
        s1 == [s EXCEPT !.log = Append(@, <<"commit", t>>),
                        !.committed = IF ok THEN @ \cup s.pending ELSE @,
                        !.pending = {},
                        !.wk = Idle]
    IN  IF t = FirstTask
        THEN [s1 EXCEPT !.spc = IF ok /\ ~raised THEN "firstOk" ELSE "firstFailed"]
        ELSE [s1 EXCEPT !.req[t].st = "posted",
                        !.req[t].out = IF ok /\ ~raised THEN "ok" ELSE "fail"]

\* The end of transaction() and of "with self.connection.begin()": rollback
\* after an exception, commit otherwise; the result goes back to the reactor.
finish(t, raised, s) ==
    LET ok == ~raised /\ s.connection = "open"
        s1 == [s EXCEPT !.log = Append(@, <<IF raised THEN "rollback" ELSE "commit", t>>),
                        !.committed = IF ok THEN @ \cup s.pending ELSE @,
                        !.pending = {},
                        !.wk = Idle]
    IN  IF t = FirstTask
        THEN [s1 EXCEPT !.spc = IF ok THEN "firstOk" ELSE "firstFailed"]
        ELSE [s1 EXCEPT !.req[t].st = "posted",
                        !.req[t].out = IF ok THEN "ok" ELSE "fail"]

----
\* The reactor's steps.

Init ==
    /\ engineName \in {"sqlite", "other"}
    /\ spc = "queue"
    /\ running = FALSE
    /\ singleton = "unset"
    /\ qstate = "none"
    /\ connection = "none"
    /\ locked = TRUE
    /\ holder = [kind |-> "startup", id |-> 0]
    /\ waiting = << >>
    /\ heap = << >>
    /\ wk = Idle
    /\ req = [r \in Txns |-> NoReq]
    /\ aux = [k \in Auxs |-> NoAux]
    /\ shut = [k \in Shutdowns |-> "new"]
    /\ pending = {}
    /\ committed = {}
    /\ log = << >>
    /\ nextId = 1
    /\ itr = NoIteration
    /\ fac = NoFactory
    /\ two = NoPair
    /\ pd = NoDict

\* startup: self.q = yield self.qFactory(...), then connect() is called.
StartupGotQueue ==
    /\ spc = "queue"
    /\ Install([St EXCEPT !.qstate = "running", !.spc = "connect"])

\* startup: self.connection = yield self.connect(), then the startup hook.
StartupGotConnection ==
    /\ spc = "connect"
    /\ Install([St EXCEPT !.connection = "open", !.spc = "hook"])

\* A variant of StartupHookDone that marks the broker running and releases
\* the lock before the first transaction has run.
StartupHookDoneEarly ==
    /\ spc = "hook"
    /\ \E ok \in BOOLEAN :
          IF ok
          THEN Install(release([St EXCEPT !.spc = "first", !.running = TRUE,
                                  !.heap = Append(@, [id |-> FirstTask, prio |-> 0])]))
          ELSE Install([St EXCEPT !.spc = "failed"])

\* startup: the hook is done; the first transaction goes to the worker.
\* A hook that fails ends the startup, with the lock still held.
StartupHookDone ==
    /\ spc = "hook"
    /\ \E ok \in BOOLEAN :
          IF ok
          THEN Install([St EXCEPT !.spc = "first",
                                  !.heap = Append(@, [id |-> FirstTask, prio |-> 0])])
          ELSE Install([St EXCEPT !.spc = "failed"])

\* Variants of StartupFirstDone: one that forgets lock.release(), one that
\* releases the lock after a failed first transaction as well.
StartupFirstDoneNoRelease ==
    \/ /\ spc = "firstOk"
       /\ Install([St EXCEPT !.running = TRUE, !.spc = "done"])
    \/ /\ spc = "firstFailed"
       /\ Install([St EXCEPT !.spc = "failed"])

StartupFirstDoneAlwaysRelease ==
    \/ /\ spc = "firstOk"
       /\ Install(release([St EXCEPT !.running = TRUE, !.spc = "done"]))
    \/ /\ spc = "firstFailed"
       /\ Install(release([St EXCEPT !.spc = "failed"]))

\* startup: the first transaction is done: running, and the lock is released.
StartupFirstDone ==
    \/ /\ spc = "firstOk"
       /\ Install(release([St EXCEPT !.running = TRUE, !.spc = "done"]))
    \/ /\ spc = "firstFailed"
       /\ Install([St EXCEPT !.spc = "failed"])

\* A caller calls the transact-decorated method m with the keywords o.
Transact(m, o) ==
    /\ nextId <= MaxTxn
    /\    LET r  == nextId
              c  == IF m.calls = "none" THEN 0 ELSE r + 1
              s1 == [St EXCEPT !.req[r] = [NoReq EXCEPT !.m = m, !.opt = o, !.child = c,
                                                         !.early = (spc # "done"),
                                                         !.late = (spc = "done" /\ ~running)],
                               !.nextId = IF c = 0 THEN r + 1 ELSE r + 2]
              s2 == IF c = 0 THEN s1
                    ELSE [s1 EXCEPT !.req[c] =
                             [NoReq EXCEPT !.st = "reserved", !.parent = r,
                                           !.m = [body |-> m.calls, calls |-> "none"]]]
          IN  /\ c <= MaxTxn
              /\ Install(substituteFunction(r, ReactorStack, s2))

\* A caller calls a transact-decorated method, with any of the keywords.
TransactCall == \E m \in Methods, o \in Options : Transact(m, o)

\* A caller calls a transact-decorated method without keywords.
PlainCall == \E m \in Methods : Transact(m, NoOption)

\* A caller calls a transact-decorated method with raw, a consumer, or both.
ResultCall == \E m \in Methods, o \in ResultOptions : Transact(m, o)

\* The waitUntilRunning, connect and deferToQueue calls a caller can make.
AuxCalls ==
    { [kind |-> "wait",    body |-> "none"],
      [kind |-> "connect", body |-> "none"],
      [kind |-> "defer",   body |-> "return"],     \* a function that returns
      [kind |-> "defer",   body |-> "raise"] }     \* lambda x: 1/0

\* A caller calls waitUntilRunning(), connect() or deferToQueue(func).
AuxCall ==
    \E k \in Auxs :
       /\ aux[k].st = "new"
       /\ \A j \in Auxs : j < k => aux[j].st # "new"
       /\ \E c \in AuxCalls :
             LET s1 == [St EXCEPT !.aux[k] =
                           [NoAux EXCEPT !.kind = c.kind, !.body = c.body,
                                         !.early = (spc # "done"),
                                         !.late = (spc = "done" /\ ~running),
                                         !.noq = (qstate = "none")]]
             IN  Install(IF c.kind = "wait" THEN waitUntilRunning(k, s1)
                         ELSE IF c.kind = "connect" THEN connect(k, s1)
                         ELSE deferToQueue(k, s1))

\* The result of a connect() or deferToQueue() task comes back: the call's
\* handle resolves.
AuxDeliver(k) ==
    /\ aux[k].st = "posted"
    /\ Install([St EXCEPT !.aux[k].st = "done", !.aux[k].fired = @ + 1])

\* A variant of Deliver that raises a failure before it releases the lock.
DeliverRaisesFirst(r) ==
    /\ req[r].st = "posted"
    /\ LET s1 == IF singleton = "yes" /\ req[r].out = "ok" THEN release(St) ELSE St
       IN  Install([s1 EXCEPT !.req[r].st = "done", !.req[r].fired = @ + 1])

\* A variant of Deliver that puts a failed transaction back in the queue, once.
DeliverRetries(r) ==
    /\ req[r].st = "posted"
    /\ IF req[r].out = "fail" /\ req[r].runs = 1
       THEN Install(qcall(r, St))
       ELSE LET s1 == IF singleton = "yes" THEN release(St) ELSE St
            IN  Install([s1 EXCEPT !.req[r].st = "done", !.req[r].fired = @ + 1])

\* The result of a transaction comes back to doTransaction: a singleton
\* releases the lock, and the call's handle resolves.
Deliver(r) ==
    /\ req[r].st = "posted"
    /\ LET s1 == IF singleton = "yes" THEN release(St) ELSE St
       IN  Install([s1 EXCEPT !.req[r].st = "done", !.req[r].fired = @ + 1])

\* A variant of ShutdownCall that leaves the running flag set.
ShutdownCallKeepsFlag ==
    \E k \in Shutdowns :
       /\ shut[k] = "new"
       /\ \A j \in Shutdowns : j < k => shut[j] # "new"
       /\ IF running
          THEN IF qstate = "running"
               THEN Install(acquire([kind |-> "shutdown", id |-> k],
                                    [St EXCEPT !.shut[k] = "gate"]))
               ELSE Install(kill(k, St))
          ELSE Install([St EXCEPT !.shut[k] = "done"])

\* A caller calls shutdown().
ShutdownCall ==
    \E k \in Shutdowns :
       /\ shut[k] = "new"
       /\ \A j \in Shutdowns : j < k => shut[j] # "new"
       /\ IF running
          THEN LET s1 == [St EXCEPT !.running = FALSE]
               IN  IF s1.qstate = "running"
                   THEN Install(acquire([kind |-> "shutdown", id |-> k],
                                        [s1 EXCEPT !.shut[k] = "gate"]))
                   ELSE Install(kill(k, s1))
          ELSE Install([St EXCEPT !.shut[k] = "done"])

\* The queue has run what it held and stops: q.shutdown() is done.
QueueStopped ==
    /\ qstate = "stopping"
    /\ heap = << >>
    /\ wk = Idle
    /\ Install([St EXCEPT !.qstate = "stopped",
                          !.shut = [k \in Shutdowns |->
                                       IF shut[k] = "killing" THEN "done" ELSE shut[k]]])

----
\* The worker thread's steps.

WorkerStart ==
    /\ wk = Idle
    /\ heap # << >>
    /\ LET i == Pick(heap)
       IN  /\ heap[i].id \in Txns \cup {FirstTask}
           /\ Install(begin(heap[i].id, [St EXCEPT !.heap = Remove(@, i)]))

\* The worker takes a task that is not a transaction and runs it.
WorkerCall ==
    /\ wk = Idle
    /\ heap # << >>
    /\ LET i == Pick(heap)
       IN  /\ heap[i].id \notin Txns \cup {FirstTask}
           /\ Install(runAux(heap[i].id - MaxTxn, [St EXCEPT !.heap = Remove(@, i)]))

WorkerBody ==
    /\ wk.pc = "body"
    /\ IF wk.task = FirstTask
       THEN \E raises \in BOOLEAN :
               Install([St EXCEPT !.pending = IF connection = "open" THEN @ \cup {FirstTask} ELSE @,
                                  !.wk.pc = "end",
                                  !.wk.raised = raises \/ connection # "open"])
       ELSE LET s1 == callFunc(wk.task, St)
            IN  Install([s1 EXCEPT !.wk.pc = "end",
                                   !.wk.raised = (s1.req[wk.task].fret = "raised")])

WorkerEnd ==
    /\ wk.pc = "end"
    /\ Install(finish(wk.task, wk.raised, St))

Next ==
    \/ StartupGotQueue
    \/ StartupGotConnection
    \/ StartupHookDone
    \/ StartupFirstDone
    \/ TransactCall
    \/ \E r \in Txns : Deliver(r)
    \/ ShutdownCall
    \/ QueueStopped
    \/ WorkerStart
    \/ WorkerBody
    \/ WorkerEnd

Spec == Init /\ [][Next]_vars

\* The broker with all of its calls: transact calls without keywords,
\* waitUntilRunning, connect, deferToQueue and shutdown.
ApiNext ==
    \/ StartupGotQueue
    \/ StartupGotConnection
    \/ StartupHookDone
    \/ StartupFirstDone
    \/ PlainCall
    \/ \E r \in Txns : Deliver(r)
    \/ AuxCall
    \/ \E k \in Auxs : AuxDeliver(k)
    \/ ShutdownCall
    \/ QueueStopped
    \/ WorkerStart
    \/ WorkerCall
    \/ WorkerBody
    \/ WorkerEnd

ApiSpec == Init /\ [][ApiNext]_vars

\* The broker with the transact calls that say what to do with the result.
ResultNext ==
    \/ StartupGotQueue
    \/ StartupGotConnection
    \/ StartupHookDone
    \/ StartupFirstDone
    \/ ResultCall
    \/ \E r \in Txns : Deliver(r)
    \/ ShutdownCall
    \/ QueueStopped
    \/ WorkerStart
    \/ WorkerBody
    \/ WorkerEnd

ResultSpec == Init /\ [][ResultNext]_vars

\* The reactor runs every callback that is due and the worker thread runs
\* every task it holds: the steps of the code are fair. The calls of the
\* broker's users (TransactCall, ShutdownCall) are not.
Fairness ==
    /\ WF_vars(StartupGotQueue)
    /\ WF_vars(StartupGotConnection)
    /\ WF_vars(StartupHookDone)
    /\ WF_vars(StartupFirstDone)
    /\ WF_vars(\E r \in Txns : Deliver(r))
    /\ WF_vars(QueueStopped)
    /\ WF_vars(WorkerStart)
    /\ WF_vars(WorkerBody)
    /\ WF_vars(WorkerEnd)

FairSpec == Spec /\ Fairness

----
\* Row iteration on a running broker: a transact method that returns a
\* ResultProxy, sql(..., asList), and selectorator, with handleResult and
\* nextFromRP.  The Prefetcherator, the Deferator and the IterationProducer
\* come from asynqueue.iteration; what handleResult relies on is modelled here:
\*   - Prefetcherator.setup fetches one item ahead and fires with whether it
\*     was valid; getNext fetches the next item and hands over the one held,
\*     with whether another one is left; a fetch that ends in StopIteration
\*     is an invalid item;
\*   - Deferator: each next() is one getNext; the callbacks added to it run
\*     when the last item has been handed over;
\*   - IterationProducer.run writes each item to the consumer, asks for no
\*     item while it is paused, and fires when the items are used up.
\* A ResultProxy holds the rows that were in the table when the select ran.

MaxRows == 2
MaxIter == 2
Iters == 1..MaxIter
\* The addPerson transaction is call number 0 at the lock and on the queue.
InsertTask == 0
LockFree == -1

\* How an iteration is asked for: everybody(), everybody(consumer=...),
\* sql(..., asList=True), selectorator(s), selectorator(s, consumer).  A
\* consumer is "fast" (IterationConsumer), "slow" (IterationConsumer with a
\* writeTime: it pauses the producer in every write) or "bad" (write raises).
IterCalls ==
    { [api |-> "transact", consumer |-> c, asList |-> FALSE] :
          c \in {"none", "fast", "slow", "bad"} }
    \cup { [api |-> "transact", consumer |-> "none", asList |-> TRUE] }
    \cup { [api |-> "selectorator", consumer |-> c, asList |-> FALSE] :
          c \in {"none", "fast", "slow"} }

\* The number of the row fetch that raises in the worker thread; 0: none does.
FetchFaults == {0, 2}

NoIt ==
    [api |-> "none", consumer |-> "none", asList |-> FALSE, failAt |-> 0,
     st |-> "new", out |-> "none", began |-> 0, racing |-> FALSE,
     snap |-> 0, cur |-> 0, last |-> 0, more |-> FALSE, got |-> << >>,
     fetches |-> 0, eos |-> FALSE, broken |-> FALSE, abandoned |-> FALSE,
     paused |-> FALSE, pausedFetch |-> 0,
     rpClosed |-> 0, connOpened |-> 0, connClosed |-> 0]

IterIdle ==
    [table |-> 0, lock |-> LockFree, waiting |-> << >>, q |-> << >>,
     its |-> [i \in Iters |-> NoIt], ins |-> "new"]

\* q.call / q.deferToThread: the task joins the queue (all of equal priority).
qput(kind, i, s) == [s EXCEPT !.q = Append(@, [kind |-> kind, id |-> i])]

\* The row fetches of iteration i that are on the queue.
Inflight(i, s) ==
    Cardinality({n \in 1..Len(s.q) : s.q[n] = [kind |-> "fetch", id |-> i]})

\* A row fetch is handed to the queue.
fetch(i, s) ==
    qput("fetch", i,
         [s EXCEPT !.its[i].pausedFetch = @ + (IF s.its[i].paused THEN 1 ELSE 0)])

\* doTransaction: q.call(transaction, self, f, ...), for everybody or addPerson.
submit(w, s) ==
    IF w = InsertTask THEN qput("insert", w, [s EXCEPT !.ins = "queued"])
    ELSE qput("select", w, [s EXCEPT !.its[w].st = "exec"])

\* self.lock.acquire() and self.lock.release() of doTransaction.
lockAcquire(w, s) ==
    IF s.lock = LockFree THEN submit(w, [s EXCEPT !.lock = w])
    ELSE [s EXCEPT !.waiting = Append(@, w)]

lockRelease(s) ==
    IF s.waiting = << >> THEN [s EXCEPT !.lock = LockFree]
    ELSE submit(Head(s.waiting),
                [s EXCEPT !.lock = Head(s.waiting), !.waiting = Tail(@)])

\* doTransaction up to q.call, on a running broker: only a singleton
\* (sqlite) broker takes the lock, and it keeps it.
iterTransaction(w, s) ==
    IF engineName = "sqlite"
    THEN lockAcquire(w, IF w = InsertTask THEN [s EXCEPT !.ins = "gate"]
                        ELSE [s EXCEPT !.its[w].st = "gate"])
    ELSE submit(w, s)

\* The end of the call: doTransaction releases the lock of a singleton
\* broker and returns the result; selectorator just returns it.
resolveCall(i, out, s) ==
    LET s1 == [s EXCEPT !.its[i].out = out,
                        !.its[i].st = IF out = "dr" THEN "open" ELSE "done"]
    IN IF s.its[i].api = "transact" /\ engineName = "sqlite"
       THEN lockRelease(s1) ELSE s1

\* handleResult raises: the exception leaves doTransaction at the line that
\* called it, before the lock is released.
handleResultRaised(i, s) ==
    [s EXCEPT !.its[i].out = "fail", !.its[i].st = "done"]

\* handleResult.close: the callback added to the Deferator.
close(i, s) ==
    [s EXCEPT !.its[i].rpClosed = @ + 1,
              !.its[i].connClosed =
                  @ + (IF s.its[i].api = "selectorator" THEN 1 ELSE 0)]

nextFromRPStopsEarly(t) ==
    [valid |-> t.failAt # t.fetches /\ t.cur + 1 < t.snap,
     raised |-> t.failAt = t.fetches]
\* nextFromRP: one fetchone on the ResultProxy; whatever it raises is
\* swallowed, and no row ends in StopIteration.
nextFromRP(t) ==
    [valid |-> t.failAt # t.fetches /\ t.cur < t.snap,
     raised |-> t.failAt = t.fetches]

produceIgnoresPause(i, s) ==
    IF ~s.its[i].more
    THEN resolveCall(i, "consumer", [s EXCEPT !.its[i].eos = TRUE])
    ELSE fetch(i, s)
\* IterationProducer.run, at the head of its loop: done when no item is
\* left, waiting while paused, else asking the Deferator for the next item.
produce(i, s) ==
    IF ~s.its[i].more
    THEN resolveCall(i, "consumer", [s EXCEPT !.its[i].eos = TRUE])
    ELSE IF s.its[i].paused THEN s
    ELSE fetch(i, s)

handleResultTwoFetches(i, s) ==
    fetch(i, fetch(i, [s EXCEPT !.its[i].st = "setup"]))
\* handleResult on a ResultProxy: fetchall in the thread with asList, else
\* the Prefetcherator is set up, which fetches the first row.
handleResult(i, s) ==
    IF s.its[i].asList THEN qput("fetchall", i, [s EXCEPT !.its[i].st = "setup"])
    ELSE fetch(i, [s EXCEPT !.its[i].st = "setup"])

\* handleResult after pf.setup: a Deferator with close as its callback, run
\* through an IterationProducer when there is a consumer; an empty list when
\* the first fetch was not valid.
setupDone(i, ok, s) ==
    IF ~ok THEN resolveCall(i, "empty", s)
    ELSE LET s1 == [s EXCEPT !.its[i].st = "open", !.its[i].more = TRUE]
         IN IF s.its[i].consumer # "none" THEN produce(i, s1)
            ELSE resolveCall(i, "dr", s1)

\* IterationConsumer.write with the row that the Deferator handed over.
write(i, row, s) ==
    CASE s.its[i].consumer = "bad" ->
             handleResultRaised(i, [s EXCEPT !.its[i].got = Append(@, row)])
      [] s.its[i].consumer = "slow" ->
             produce(i, [s EXCEPT !.its[i].got = Append(@, row),
                                  !.its[i].paused = TRUE])
      [] OTHER -> produce(i, [s EXCEPT !.its[i].got = Append(@, row)])

\* Prefetcherator.getNext is done: the row held is handed over and the new
\* one is held; the Deferator runs close when no row is left.
gotNext(i, row, s) ==
    LET s1 == IF s.its[i].more THEN s ELSE close(i, s)
    IN IF s.its[i].consumer # "none" THEN write(i, row, s1)
       ELSE [s1 EXCEPT !.its[i].got = Append(@, row)]

\* The worker thread ran nextFromRP and the reactor got its result.
gotFetch(i, s) ==
    LET t == [s.its[i] EXCEPT !.fetches = @ + 1]
        f == nextFromRP(t)
        t1 == [t EXCEPT !.cur = IF f.valid THEN @ + 1 ELSE @,
                        !.last = IF f.valid THEN t.cur + 1 ELSE 0,
                        !.more = f.valid,
                        !.broken = @ \/ f.raised]
        s1 == [s EXCEPT !.its[i] = t1]
    IN IF t.st = "setup" THEN setupDone(i, f.valid, s1)
       ELSE gotNext(i, t.last, s1)

\* The worker thread ran result.fetchall and the reactor got the list.
gotList(i, s) ==
    IF s.its[i].failAt \in 1..(s.its[i].snap + 1)
    THEN handleResultRaised(i, [s EXCEPT !.its[i].broken = TRUE])
    ELSE resolveCall(i, "list",
             [s EXCEPT !.its[i].got = [n \in 1..s.its[i].snap |-> n],
                       !.its[i].cur = s.its[i].snap,
                       !.its[i].eos = TRUE])

\* selectorator: the new connection is there, the select goes to the queue.
gotConnection(i, s) ==
    qput("select", i, [s EXCEPT !.its[i].connOpened = @ + 1,
                                !.its[i].st = "exec"])

\* The select ran in the worker thread (inside transaction, or as
\* connection.execute); its ResultProxy goes to handleResult.
gotResult(i, s) ==
    handleResult(i, [s EXCEPT !.its[i].snap = s.table])

\* addPerson ran in the worker thread and its call resolves.
gotInsert(s) ==
    LET s1 == [s EXCEPT !.table = @ + 1, !.ins = "done"]
    IN IF engineName = "sqlite" THEN lockRelease(s1) ELSE s1

\* A call that returns rows is made on the running broker.
IterCall(i, c, f) ==
    /\ itr.its[i].st = "new"
    /\ \A j \in Iters : j < i => itr.its[j].st # "new"
    /\ LET s == [itr EXCEPT !.its[i] =
                     [NoIt EXCEPT !.api = c.api, !.consumer = c.consumer,
                                  !.asList = c.asList, !.failAt = f,
                                  !.began = itr.table,
                                  !.racing = itr.ins \in {"gate", "queued"}]]
       IN itr' = IF c.api = "transact" THEN iterTransaction(i, s)
                 ELSE qput("connect", i, [s EXCEPT !.its[i].st = "conn"])
    /\ UNCHANGED <<brokerVars, fac, two, pd>>

IterCallAny == \E i \in Iters, c \in IterCalls, f \in FetchFaults : IterCall(i, c, f)

\* addPerson is called, without waiting for anything.
InsertCall ==
    /\ itr.ins = "new"
    /\ itr' = iterTransaction(InsertTask, itr)
    /\ UNCHANGED <<brokerVars, fac, two, pd>>

\* The worker thread runs the oldest task and the reactor gets its result.
RunTask ==
    /\ itr.q # << >>
    /\ LET t == Head(itr.q)
           s == [itr EXCEPT !.q = Tail(@)]
       IN itr' = CASE t.kind = "connect" -> gotConnection(t.id, s)
                   [] t.kind = "select" -> gotResult(t.id, s)
                   [] t.kind = "fetch" -> gotFetch(t.id, s)
                   [] t.kind = "fetchall" -> gotList(t.id, s)
                   [] OTHER -> gotInsert(s)
    /\ UNCHANGED <<brokerVars, fac, two, pd>>

\* The caller's loop over the Deferator: for d in dr: row = yield d.
NextRow(i) ==
    /\ itr.its[i].st = "open"
    /\ itr.its[i].out = "dr"
    /\ Inflight(i, itr) = 0
    /\ itr' = IF itr.its[i].more THEN fetch(i, itr)
              ELSE [itr EXCEPT !.its[i].eos = TRUE, !.its[i].st = "done"]
    /\ UNCHANGED <<brokerVars, fac, two, pd>>

\* The caller leaves its loop and drops the Deferator.
Abandon(i) ==
    /\ itr.its[i].st = "open"
    /\ itr.its[i].out = "dr"
    /\ Inflight(i, itr) = 0
    /\ itr' = [itr EXCEPT !.its[i].abandoned = TRUE, !.its[i].st = "done"]
    /\ UNCHANGED <<brokerVars, fac, two, pd>>

\* The slow consumer's delay is over: producer.resumeProducing().
Resume(i) ==
    /\ itr.its[i].paused
    /\ LET s == [itr EXCEPT !.its[i].paused = FALSE]
       IN itr' = IF itr.its[i].st = "open" THEN produce(i, s) ELSE s
    /\ UNCHANGED <<brokerVars, fac, two, pd>>

\* The broker has started and nothing else is done with it.
Started ==
    /\ engineName \in {"sqlite", "other"}
    /\ spc = "done"
    /\ running = TRUE
    /\ singleton = IF engineName = "sqlite" THEN "yes" ELSE "no"
    /\ qstate = "running"
    /\ connection = "open"
    /\ locked = FALSE
    /\ holder = NoHolder
    /\ waiting = << >>
    /\ heap = << >>
    /\ wk = Idle
    /\ req = [r \in Txns |-> NoReq]
    /\ aux = [k \in Auxs |-> NoAux]
    /\ shut = [k \in Shutdowns |-> "new"]
    /\ pending = {}
    /\ committed = {}
    /\ log = << >>
    /\ nextId = 1

IterInit ==
    /\ Started
    /\ itr \in {[IterIdle EXCEPT !.table = k] : k \in 0..MaxRows}
    /\ fac = NoFactory
    /\ two = NoPair
    /\ pd = NoDict

IterNext ==
    \/ IterCallAny
    \/ InsertCall
    \/ RunTask
    \/ \E i \in Iters : NextRow(i)
    \/ \E i \in Iters : Abandon(i)
    \/ \E i \in Iters : Resume(i)

IterSpec == IterInit /\ [][IterNext]_vars

----
\* The queue Factory (sasync/queue.py) with the brokers that get their
\* queues from it: AccessBroker.qFactory is one Factory for all brokers.
\* Each broker is taken through its startup, one transaction and one
\* shutdown.  Of the ThreadQueue the brokers rely on this: call() raises
\* once shutdown() has been called, shutdown() lets the queued tasks run,
\* fires when the queue has stopped, and may be called again.

MaxBroker == 2
Brokers == 1..MaxBroker
QueueIds == 1..MaxBroker
Urls == {"a", "b"}
NoQueue == 0

NoBroker ==
    [url |-> "none", st |-> "none", q |-> NoQueue, running |-> FALSE,
     single |-> "unset", conn |-> "none", lock |-> "free", lockWait |-> << >>,
     txn |-> "new", sd |-> "new", afterKill |-> FALSE]

NoThreadQueue == [url |-> "none", st |-> "none", engine |-> FALSE, tasks |-> << >>]

\* The calls of getGlobal and setGlobal, and the Deferreds they return: that
\* of getGlobal call k is [kind |-> "get", k |-> k], that of setGlobal call
\* j is [kind |-> "set", k |-> j].
MaxGet == 2
MaxSet == 2
Gets == 1..MaxGet
Sets == 1..MaxSet
NoDeferred == [kind |-> "none", k |-> 0]
NoGet == [st |-> "new", out |-> NoQueue, at |-> NoQueue, on |-> NoDeferred]
NoSet == [st |-> "new", q |-> NoQueue]

FacIdle ==
    [queues |-> [u \in Urls |-> NoQueue],
     qs |-> [n \in QueueIds |-> NoThreadQueue],
     br |-> [b \in Brokers |-> NoBroker],
     globalQueue |-> NoQueue,
     d |-> NoDeferred,
     gets |-> [k \in Gets |-> NoGet],
     sets |-> [j \in Sets |-> NoSet],
     killed |-> {}]

\* q.isRunning()
isRunning(n, s) == s.qs[n].st = "running"

\* q.call / q.deferToThread on the broker's queue.
qcallShared(kind, b, s) ==
    [s EXCEPT !.qs[s.br[b].q].tasks = Append(@, [kind |-> kind, b |-> b])]

\* AccessBroker.singleton, computed on first use and cached.
readSingle(b, s) ==
    IF s.br[b].single # "unset" THEN s
    ELSE [s EXCEPT !.br[b].single =
              IF s.br[b].q = NoQueue \/ engineName = "sqlite" THEN "yes" ELSE "no"]

\* startup: self.q = <the queue>, then self.connect().
startupGotQueue(b, n, s) ==
    LET s1 == [s EXCEPT !.br[b].q = n]
    IN IF isRunning(n, s1)
       THEN qcallShared("connect", b, [s1 EXCEPT !.br[b].st = "connect"])
       ELSE [s1 EXCEPT !.br[b].st = "dead"]

\* Factory.newQueue: a new ThreadQueue whose first task makes the engine.
newQueue(b, u, s) ==
    LET n == CHOOSE m \in QueueIds :
                 /\ s.qs[m].st = "none"
                 /\ \A k \in QueueIds : k < m => s.qs[k].st # "none"
    IN [s EXCEPT !.qs[n] = [url |-> u, st |-> "running", engine |-> FALSE,
                            tasks |-> <<[kind |-> "engine", b |-> b]>>],
                 !.br[b].st = "waitq"]

\* Factory.__call__ with a url: the cached queue, or a new one.
factoryCall(b, u, s) ==
    IF s.queues[u] # NoQueue THEN startupGotQueue(b, s.queues[u], s)
    ELSE newQueue(b, u, s)

\* Factory.__call__.gotQueue: the new queue is cached when its engine is there.
gotQueue(b, n, s) ==
    startupGotQueue(b, n, [s EXCEPT !.queues[s.qs[n].url] = n,
                                    !.qs[n].engine = TRUE])

killSharedKeepsCache(b, s) ==
    LET n == s.br[b].q
    IN IF s.qs[n].st = "stopped" THEN [s EXCEPT !.br[b].sd = "done"]
       ELSE [s EXCEPT !.qs[n].st = "stopping", !.br[b].sd = "kill"]
\* Factory.kill: the queue leaves the cache and is shut down.
killShared(b, s) ==
    LET n == s.br[b].q
        s1 == [s EXCEPT !.queues = [u \in Urls |-> IF @[u] = n THEN NoQueue ELSE @[u]]]
    IN IF s.qs[n].st = "stopped" THEN [s1 EXCEPT !.br[b].sd = "done"]
       ELSE [s1 EXCEPT !.qs[n].st = "stopping", !.br[b].sd = "kill"]

\* Deferred.called
called(d, s) ==
    CASE d.kind = "get" -> s.gets[d.k].st \in {"done", "failed"}
      [] d.kind = "set" -> s.sets[d.k].st \in {"done", "failed"}
      [] OTHER -> FALSE

getGlobalAlwaysNew(k, s) ==
    [s EXCEPT !.gets[k] = [st |-> "pending", out |-> NoQueue,
                           at |-> s.globalQueue, on |-> NoDeferred],
              !.d = [kind |-> "get", k |-> k]]
\* Factory.getGlobal: the global queue if there is one; else a new Deferred,
\* chained to cls.d if cls.d is there and has not fired, or else stored as
\* cls.d.
getGlobal(k, s) ==
    IF s.globalQueue # NoQueue
    THEN [s EXCEPT !.gets[k] = [st |-> "done", out |-> s.globalQueue,
                                at |-> s.globalQueue, on |-> NoDeferred]]
    ELSE IF s.d # NoDeferred /\ ~called(s.d, s)
    THEN [s EXCEPT !.gets[k] = [st |-> "pending", out |-> NoQueue,
                                at |-> NoQueue, on |-> s.d]]
    ELSE [s EXCEPT !.gets[k] = [st |-> "pending", out |-> NoQueue,
                                at |-> NoQueue, on |-> NoDeferred],
                   !.d = [kind |-> "get", k |-> k]]

\* Factory.setGlobal: cls.d = cls.newQueue(url, **kw).addCallback(gotQueue)
setGlobal(j, s) ==
    LET n == CHOOSE m \in QueueIds :
                 /\ s.qs[m].st = "none"
                 /\ \A k \in QueueIds : k < m => s.qs[k].st # "none"
    IN [s EXCEPT !.qs[n] = [url |-> "global", st |-> "running", engine |-> FALSE,
                            tasks |-> <<[kind |-> "global", b |-> j]>>],
                 !.sets[j] = [st |-> "pending", q |-> n],
                 !.d = [kind |-> "set", k |-> j]]

\* The getGlobal Deferreds that fire when Deferred d fires: those chained
\* to it, and those chained to them.
RECURSIVE chained(_, _, _)
chained(d, s, depth) ==
    IF depth = 0 THEN {}
    ELSE LET linked == {k \in Gets : s.gets[k].st = "pending" /\ s.gets[k].on = d}
         IN linked \cup UNION {chained([kind |-> "get", k |-> k], s, depth - 1) :
                                   k \in linked}

\* Factory.setGlobal.gotQueue, after newQueue's gotEngine: del cls.d, which
\* raises when cls.d is not there; cls.globalQueue = q.  The Deferreds
\* chained to that of setGlobal fire with its result.
gotGlobal(j, n, s) ==
    LET dj == [kind |-> "set", k |-> j]
        fired == chained(dj, s, MaxGet)
        ok == s.d # NoDeferred
        s1 == [s EXCEPT !.qs[n].engine = TRUE,
                        !.sets[j].st = IF ok THEN "done" ELSE "failed",
                        !.gets = [k \in Gets |->
                                     IF k \in fired
                                     THEN [@[k] EXCEPT
                                              !.st = IF ok THEN "done" ELSE "failed",
                                              !.out = IF ok THEN n ELSE NoQueue]
                                     ELSE @[k]]]
    IN IF ok THEN [s1 EXCEPT !.d = NoDeferred, !.globalQueue = n] ELSE s1

killQueueAlways(n, s) ==
    [s EXCEPT !.queues = [u \in Urls |-> IF @[u] = n THEN NoQueue ELSE @[u]],
              !.qs[n].st = IF @ = "stopped" THEN @ ELSE "stopping"]
\* Factory.kill(q), called with a queue: no shutdown for the global queue.
killQueue(n, s) ==
    LET s1 == [s EXCEPT !.queues = [u \in Urls |-> IF @[u] = n THEN NoQueue ELSE @[u]]]
    IN IF n = s.globalQueue THEN s1
       ELSE [s1 EXCEPT !.qs[n].st = IF @ = "stopped" THEN @ ELSE "stopping"]

\* doTransaction: q.call(transaction, ...); it raises on a queue that has
\* been shut down.
txnSubmit(b, s) ==
    IF isRunning(s.br[b].q, s)
    THEN qcallShared("txn", b, [s EXCEPT !.br[b].txn = "queued"])
    ELSE [s EXCEPT !.br[b].txn = "fail"]

\* The broker's DeferredLock: release hands the lock to the oldest waiter,
\* whose callback runs at once.
RECURSIVE lockReleaseShared(_, _), lockAcquiredShared(_, _, _)
lockReleaseShared(b, s) ==
    IF s.br[b].lockWait = << >> THEN [s EXCEPT !.br[b].lock = "free"]
    ELSE lockAcquiredShared(b, Head(s.br[b].lockWait),
             [s EXCEPT !.br[b].lock = Head(s.br[b].lockWait),
                       !.br[b].lockWait = Tail(@)])

\* What the waiter does with the lock: a transaction goes to the queue (a
\* broker that is not a singleton gives the lock back first); shutdown
\* closes the connection, gives the lock back and kills the queue.
lockAcquiredShared(b, w, s) ==
    IF w = "txn"
    THEN txnSubmit(b, IF s.br[b].single = "yes" THEN s ELSE lockReleaseShared(b, s))
    ELSE killShared(b, lockReleaseShared(b, [s EXCEPT !.br[b].conn = "closed"]))

lockAcquireShared(b, w, s) ==
    IF s.br[b].lock = "free"
    THEN lockAcquiredShared(b, w, [s EXCEPT !.br[b].lock = w])
    ELSE [s EXCEPT !.br[b].lockWait = Append(@, w)]

\* The main loop gets the result of the task that the queue's thread ran.
taskDone(t, n, s) ==
    LET b == t.b
    IN CASE t.kind = "engine" -> gotQueue(b, n, s)
         [] t.kind = "global" -> gotGlobal(b, n, s)
         [] t.kind = "connect" ->
                IF isRunning(n, s)
                THEN qcallShared("first", b, [s EXCEPT !.br[b].conn = "open",
                                                     !.br[b].st = "first"])
                ELSE [s EXCEPT !.br[b].conn = "open", !.br[b].st = "dead"]
         [] t.kind = "first" ->
                lockReleaseShared(b, [s EXCEPT !.br[b].running = TRUE,
                                               !.br[b].st = "up"])
         [] OTHER ->
                LET s1 == [s EXCEPT !.br[b].txn =
                               IF s.br[b].conn = "open" THEN "ok" ELSE "fail"]
                IN IF s.br[b].single = "yes" THEN lockReleaseShared(b, s1) ELSE s1

\* AccessBroker(url): the lock is taken for startup, which asks the
\* Factory for the queue.
Construct(b, u) ==
    /\ fac.br[b].st = "none"
    /\ \A c \in Brokers : c < b => fac.br[c].st # "none"
    /\ fac' = factoryCall(b, u,
                  [fac EXCEPT !.br[b].url = u, !.br[b].lock = "startup",
                              !.br[b].afterKill =
                                  \E n \in QueueIds :
                                      /\ fac.qs[n].url = u
                                      /\ fac.qs[n].st \in {"stopping", "stopped"}])
    /\ UNCHANGED <<brokerVars, itr, two, pd>>

\* A transact call on the broker.
SharedTransact(b) ==
    /\ fac.br[b].st # "none"
    /\ fac.br[b].txn = "new"
    /\ LET s == readSingle(b, fac)
       IN fac' = IF s.br[b].single = "yes" \/ ~s.br[b].running
                 THEN lockAcquireShared(b, "txn", [s EXCEPT !.br[b].txn = "gate"])
                 ELSE txnSubmit(b, s)
    /\ UNCHANGED <<brokerVars, itr, two, pd>>

SharedShutdownAlwaysWaits(b) ==
    /\ fac.br[b].st # "none"
    /\ fac.br[b].sd = "new"
    /\ fac' = IF ~fac.br[b].running THEN [fac EXCEPT !.br[b].sd = "done"]
              ELSE lockAcquireShared(b, "shutdown",
                       [fac EXCEPT !.br[b].running = FALSE, !.br[b].sd = "gate"])
    /\ UNCHANGED <<brokerVars, itr, two, pd>>
\* broker.shutdown()
SharedShutdown(b) ==
    /\ fac.br[b].st # "none"
    /\ fac.br[b].sd = "new"
    /\ fac' = IF ~fac.br[b].running THEN [fac EXCEPT !.br[b].sd = "done"]
              ELSE LET s == [fac EXCEPT !.br[b].running = FALSE, !.br[b].sd = "gate"]
                   IN IF isRunning(s.br[b].q, s)
                      THEN lockAcquireShared(b, "shutdown", s)
                      ELSE killShared(b, s)
    /\ UNCHANGED <<brokerVars, itr, two, pd>>

\* The thread of queue n runs its oldest task.
QueueRun(n) ==
    /\ fac.qs[n].tasks # << >>
    /\ fac' = taskDone(Head(fac.qs[n].tasks), n, [fac EXCEPT !.qs[n].tasks = Tail(@)])
    /\ UNCHANGED <<brokerVars, itr, two, pd>>

\* A queue that was shut down has run its tasks and stops: the shutdown
\* calls that wait for it resolve.
QueueStop(n) ==
    /\ fac.qs[n].st = "stopping"
    /\ fac.qs[n].tasks = << >>
    /\ fac' = [fac EXCEPT !.qs[n].st = "stopped",
                          !.br = [b \in Brokers |->
                                     IF @[b].q = n /\ @[b].sd = "kill"
                                     THEN [@[b] EXCEPT !.sd = "done"] ELSE @[b]]]
    /\ UNCHANGED <<brokerVars, itr, two, pd>>

FacInit ==
    /\ Started
    /\ itr = NoIteration
    /\ fac = FacIdle
    /\ two = NoPair
    /\ pd = NoDict

FacNext ==
    \/ \E b \in Brokers, u \in Urls : Construct(b, u)
    \/ \E b \in Brokers : SharedTransact(b)
    \/ \E b \in Brokers : SharedShutdown(b)
    \/ \E n \in QueueIds : QueueRun(n)
    \/ \E n \in QueueIds : QueueStop(n)

FacSpec == FacInit /\ [][FacNext]_vars

\* The queues' threads run their tasks and a queue that was shut down stops.
FacFairSpec ==
    FacSpec /\ \A n \in QueueIds : WF_vars(QueueRun(n)) /\ WF_vars(QueueStop(n))

\* The global queue: calls of setGlobal, of getGlobal (or of a Factory
\* without a url, which is getGlobal), and of kill with a queue that was
\* delivered.
SetGlobalCall(j) ==
    /\ fac.sets[j].st = "new"
    /\ \A i \in Sets : i < j => fac.sets[i].st # "new"
    /\ fac' = setGlobal(j, fac)
    /\ UNCHANGED <<brokerVars, itr, two, pd>>

GetGlobalCall(k) ==
    /\ fac.gets[k].st = "new"
    /\ \A i \in Gets : i < k => fac.gets[i].st # "new"
    /\ fac' = getGlobal(k, fac)
    /\ UNCHANGED <<brokerVars, itr, two, pd>>

KillCall(n) ==
    /\ fac.qs[n].engine
    /\ n \notin fac.killed
    /\ fac' = killQueue(n, [fac EXCEPT !.killed = @ \cup {n}])
    /\ UNCHANGED <<brokerVars, itr, two, pd>>

GlobalNext ==
    \/ \E j \in Sets : SetGlobalCall(j)
    \/ \E k \in Gets : GetGlobalCall(k)
    \/ \E n \in QueueIds : KillCall(n)
    \/ \E n \in QueueIds : QueueRun(n)
    \/ \E n \in QueueIds : QueueStop(n)

GlobalSpec == FacInit /\ [][GlobalNext]_vars

----
\* Two running SQLite brokers of one class, each with its own queue, worker
\* thread, connection and lock, whose methods may call a method of the same
\* broker or of the other one.

MaxCall == 4
Calls == 1..MaxCall
Pair == {1, 2}
NoCaller == 0

\* What a transact-decorated method does: nothing else ("plain"), or call a
\* transact-decorated method of its own broker ("same") or of the other
\* broker ("other").
CallKinds == {"plain", "same", "other"}

\* A transact call: the broker it is made on, its method, where it stands,
\* the call it was made from, whether its function was run directly, the
\* broker whose transaction was executing in the calling thread (inside),
\* the worker thread that ran its function, whether transaction() began a
\* transaction for it, and the call whose transaction was open on its
\* broker's connection when its function ran (within).
NoCall == [on |-> 0, kind |-> "none", st |-> "new", parent |-> NoCaller,
           ranDirect |-> FALSE, inside |-> 0, thread |-> 0, began |-> FALSE,
           within |-> NoCaller]

\* A broker: the holder and the waiters of its lock, its queue, the task its
\* worker runs and where it stands, and the call whose transaction is open
\* on its connection.
NoPeer == [lock |-> NoCaller, wait |-> << >>, q |-> << >>, task |-> NoCaller,
           pc |-> "idle", open |-> NoCaller]

PairIdle == [br |-> [b \in Pair |-> NoPeer], calls |-> [c \in Calls |-> NoCall]]

\* self.q.call(transaction, self, f, ...).
pairQcall(c, s) ==
    [s EXCEPT !.br[s.calls[c].on].q = Append(@, c), !.calls[c].st = "queued"]

\* doTransaction of a running SQLite broker: the lock, then the queue.
pairDoTransaction(c, s) ==
    LET b == s.calls[c].on
    IN  IF s.br[b].lock = NoCaller
        THEN pairQcall(c, [s EXCEPT !.br[b].lock = c])
        ELSE [s EXCEPT !.br[b].wait = Append(@, c), !.calls[c].st = "gate"]

\* return f(self, *args, **kw): the function runs at once in the calling
\* thread, on its own broker's connection as that connection is.
pairDirect(c, t, s) ==
    [s EXCEPT !.calls[c].st = "direct", !.calls[c].ranDirect = TRUE,
              !.calls[c].thread = t,
              !.calls[c].within = s.br[s.calls[c].on].open]

\* substituteFunction of the broker the call is made on, called in thread t
\* (0 is the reactor) with the given frames above it.
pairSubstitute(c, stack, t, s) ==
    IF isNested(stack) THEN pairDirect(c, t, s) ELSE pairDoTransaction(c, s)

\* self.lock.release() at the end of doTransaction.
pairRelease(b, s) ==
    IF s.br[b].wait = << >>
    THEN [s EXCEPT !.br[b].lock = NoCaller]
    ELSE LET w == Head(s.br[b].wait)
         IN  pairQcall(w, [s EXCEPT !.br[b].lock = w, !.br[b].wait = Tail(@)])

\* A caller in the reactor calls a method of kind k of broker b. The call
\* that the method will make is numbered next.
PairCall(b, k) ==
    \E c \in Calls :
       /\ two.calls[c].st = "new"
       /\ \A i \in Calls : i < c => two.calls[i].st # "new"
       /\ k # "plain" => c + 1 \in Calls
       /\ LET d  == c + 1
              s1 == [two EXCEPT !.calls[c] = [NoCall EXCEPT !.on = b, !.kind = k]]
              s2 == IF k = "plain" THEN s1
                    ELSE [s1 EXCEPT !.calls[d] =
                             [NoCall EXCEPT !.st = "reserved", !.parent = c, !.kind = "plain",
                                            !.on = IF k = "same" THEN b ELSE 3 - b]]
          IN  two' = pairSubstitute(c, ReactorStack, 0, s2)
       /\ UNCHANGED <<brokerVars, itr, fac, pd>>

\* The worker of broker b takes its next task: transaction() begins a
\* transaction on the broker's connection.
PairBegin(b) ==
    /\ two.br[b].pc = "idle"
    /\ two.br[b].q # << >>
    /\ LET c == Head(two.br[b].q)
       IN  two' = [two EXCEPT !.br[b].q = Tail(@), !.br[b].task = c,
                              !.br[b].pc = "body", !.br[b].open = c,
                              !.calls[c].st = "exec", !.calls[c].began = TRUE,
                              !.calls[c].thread = b, !.calls[c].within = c]
    /\ UNCHANGED <<brokerVars, itr, fac, pd>>

\* func(*t_args, **t_kw) in transaction(): the method runs in the worker of
\* broker b and makes the call it has to make.
PairBody(b) ==
    /\ two.br[b].pc = "body"
    /\ LET c  == two.br[b].task
           d  == c + 1
           s1 == [two EXCEPT !.br[b].pc = "commit"]
       IN  two' = IF two.calls[c].kind = "plain" THEN s1
                  ELSE pairSubstitute(d, TransactionStack, b,
                                      [s1 EXCEPT !.calls[d].inside = b])
    /\ UNCHANGED <<brokerVars, itr, fac, pd>>

\* trans.commit() in transaction(): the task is done.
PairCommit(b) ==
    /\ two.br[b].pc = "commit"
    /\ two' = [two EXCEPT !.br[b].pc = "idle", !.br[b].open = NoCaller,
                          !.br[b].task = NoCaller,
                          !.calls[two.br[b].task].st = "posted"]
    /\ UNCHANGED <<brokerVars, itr, fac, pd>>

\* The result comes back to doTransaction in the reactor: the lock is
\* released and the call's handle resolves.
PairDeliver(c) ==
    /\ two.calls[c].st = "posted"
    /\ two' = pairRelease(two.calls[c].on, [two EXCEPT !.calls[c].st = "done"])
    /\ UNCHANGED <<brokerVars, itr, fac, pd>>

PairInit ==
    /\ Started
    /\ engineName = "sqlite"
    /\ itr = NoIteration
    /\ fac = NoFactory
    /\ two = PairIdle
    /\ pd = NoDict

PairNext ==
    \/ \E b \in Pair, k \in CallKinds : PairCall(b, k)
    \/ \E b \in Pair : PairBegin(b)
    \/ \E b \in Pair : PairBody(b)
    \/ \E b \in Pair : PairCommit(b)
    \/ \E c \in Calls : PairDeliver(c)

PairSpec == PairInit /\ [][PairNext]_vars

----
\* A PersistentDict in normal (not preload) mode, with its item store on a
\* SQLite broker that owns its queue (sasync/pdict.py, sasync/items.py).
\* The dictionary is used until shutdown() is called on it and not after.
\* The DeferredTracker comes from asynqueue: put(d) tracks d until it has
\* fired, with a result or a failure; deferToAll() fires when every Deferred
\* tracked at the time of the call has fired, at once when there is none.

MaxOp == 4
Ops == 1..MaxOp
Keys == {1, 2}
Values == {1, 2}
OldValue == 3
Missing == 0
StartupHolds == -1
Unlocked == 0

\* A call made on the dictionary: an assignment ("set"), clear() ("clear"),
\* deferToWrites() ("wait") or shutdown() ("shutdown"); the transaction it
\* is at (phase) and where that stands (st); what load (res) or names
\* (names) returned; the tracked Deferreds its deferToAll() still waits for
\* (on); whether it tracks a d2; the in-memory dictionary when the call was
\* made (snap) and whether lazy writes were pending then (busy).
NoCallOp == [kind |-> "none", key |-> 0, val |-> 0, phase |-> "none", st |-> "new",
             res |-> Missing, names |-> {}, on |-> {}, d2 |-> FALSE,
             snap |-> [k \in Keys |-> Missing], busy |-> FALSE]

\* The dictionary, started: the broker's startup holds the lock.
DictIdle ==
    [running |-> FALSE, lock |-> StartupHolds, wait |-> << >>, q |-> << >>,
     qst |-> "running", conn |-> "open",
     db |-> [k \in Keys |-> Missing], data |-> [k \in Keys |-> Missing],
     tracked |-> {}, ops |-> [o \in Ops |-> NoCallOp], n |-> 0, closing |-> FALSE]

RECURSIVE pdFire(_, _)
RECURSIVE pdResumeAll(_, _)
RECURSIVE pdRelease(_)
RECURSIVE pdDoTransaction(_, _)

\* The Deferred of a call's transaction fires with a failure: the Deferred
\* the tracker holds for the call fires with it; a d2 is left as it is.
pdFailed(o, s) == pdFire(<<o, "d">>, [s EXCEPT !.ops[o].st = "failed"])

\* self.q.call(transaction, self, f, ...) in doTransaction; a queue that has
\* been shut down raises.
pdQcall(o, s) ==
    IF s.qst = "running"
    THEN [s EXCEPT !.q = Append(@, o), !.ops[o].st = "queued"]
    ELSE pdFailed(o, s)

\* doTransaction of a SQLite broker: the lock, then the queue.
pdDoTransaction(o, s) ==
    IF s.lock = Unlocked
    THEN pdQcall(o, [s EXCEPT !.lock = o])
    ELSE [s EXCEPT !.wait = Append(@, [kind |-> "txn", op |-> o]), !.ops[o].st = "gate"]

\* callWhenRunning(f, ...): f is called at once when the broker is running;
\* else waitUntilRunning waits for the lock, releases it, and then f is called.
pdCallWhenRunning(o, s) ==
    IF s.running \/ s.lock = Unlocked
    THEN pdDoTransaction(o, s)
    ELSE [s EXCEPT !.wait = Append(@, [kind |-> "wur", op |-> o]), !.ops[o].st = "wur"]

\* AccessBroker.shutdown with the lock: the connection is closed, the lock
\* released and the queue killed.
pdShutdownLocked(o, s) ==
    LET s1 == pdRelease([s EXCEPT !.conn = "closed"])
    IN  [s1 EXCEPT !.qst = "stopping", !.ops[o].st = "kill"]

\* self.lock.release(): the oldest waiter gets the lock and its callback runs
\* before release returns. A waitUntilRunning releases the lock in its turn
\* and then makes its call; a doTransaction goes to the queue.
pdRelease(s) ==
    IF s.wait = << >>
    THEN [s EXCEPT !.lock = Unlocked]
    ELSE LET w  == Head(s.wait)
             s1 == [s EXCEPT !.wait = Tail(@), !.lock = w.op]
         IN  CASE w.kind = "txn" -> pdQcall(w.op, s1)
               [] w.kind = "wur" -> pdDoTransaction(w.op, pdRelease(s1))
               [] w.kind = "shut" -> pdShutdownLocked(w.op, s1)

\* self.i.shutdown(): AccessBroker.shutdown of the item store's broker.
pdBrokerShutdown(o, s) ==
    IF ~s.running
    THEN [s EXCEPT !.ops[o].st = "done"]
    ELSE LET s1 == [s EXCEPT !.running = FALSE]
         IN  IF s1.lock = Unlocked
             THEN pdShutdownLocked(o, [s1 EXCEPT !.lock = o])
             ELSE [s1 EXCEPT !.wait = Append(@, [kind |-> "shut", op |-> o]),
                             !.ops[o].st = "gate"]

\* What a call does once its deferToAll() has fired: deferToWrites() has
\* resolved; clear() reads the names of the rows; shutdown() shuts the
\* broker down.
pdResume(o, s) ==
    CASE s.ops[o].kind = "wait" -> [s EXCEPT !.ops[o].st = "done"]
      [] s.ops[o].kind = "clear" ->
             pdDoTransaction(o, [s EXCEPT !.ops[o].phase = "names"])
      [] s.ops[o].kind = "shutdown" -> pdBrokerShutdown(o, s)

\* The calls whose deferToAll() has fired resume, oldest first.
pdResumeAll(os, s) ==
    IF os = {} THEN s
    ELSE LET o == CHOOSE x \in os : \A y \in os : x <= y
         IN  pdResumeAll(os \ {o}, pdResume(o, s))

\* A tracked Deferred fires: the tracker drops it, and every deferToAll()
\* that was waiting for it alone fires.
pdFire(d, s) ==
    LET ready == {o \in Ops : s.ops[o].on = {d} /\ s.ops[o].st = "tracking"}
        s1    == [s EXCEPT !.tracked = @ \ {d},
                           !.ops = [o \in Ops |-> [s.ops[o] EXCEPT !.on = @ \ {d}]]]
    IN  pdResumeAll(ready, s1)

\* The callbacks of a transaction's Deferred that fired with a result. An
\* assignment's load goes on to insert or update (valueLoaded) through
\* Items.write; its write fires d2 (done) and then the tracked Deferred.
\* clear() goes from the names to the delete, and then its Deferred fires.
pdCallbacks(o, s) ==
    LET op == s.ops[o]
    IN  CASE op.phase = "load" ->
                 pdCallWhenRunning(o, [s EXCEPT !.ops[o].phase =
                                          IF op.res = Missing THEN "insert" ELSE "update"])
          [] op.phase \in {"insert", "update"} ->
                 LET s1 == [s EXCEPT !.ops[o].st = "done"]
                     s2 == IF op.d2 THEN pdFire(<<o, "d2">>, s1) ELSE s1
                 IN  pdFire(<<o, "d">>, s2)
          [] op.phase = "names" ->
                 pdDoTransaction(o, [s EXCEPT !.ops[o].phase = "delete"])
          [] op.phase = "delete" ->
                 pdFire(<<o, "d">>, [s EXCEPT !.ops[o].st = "done"])

\* The in-memory dictionary with every key missing.
NoData == [k \in Keys |-> Missing]

\* __setitem__(name, value) as call number o.
pdSetitem(o, k, v, s) ==
    LET oldValue == s.data[k]
        op == [NoCallOp EXCEPT !.kind = "set", !.key = k, !.val = v,
                               !.phase = IF oldValue = Missing THEN "load" ELSE "update",
                               !.d2 = (oldValue = Missing)]
        ds == IF oldValue = Missing THEN {<<o, "d2">>, <<o, "d">>} ELSE {<<o, "d">>}
    IN  pdCallWhenRunning(o, [s EXCEPT !.data[k] = v, !.ops[o] = op,
                                       !.tracked = @ \cup ds])

\* A variant of clear that does not wait for the lazy writes.
pdClearAtOnce(o, s) ==
    LET op == [NoCallOp EXCEPT !.kind = "clear", !.st = "tracking",
                               !.busy = (s.tracked # {})]
    IN  pdResume(o, [s EXCEPT !.data = NoData, !.ops[o] = op,
                              !.tracked = @ \cup {<<o, "d">>}])

\* clear() as call number o.
pdClear(o, s) ==
    LET op == [NoCallOp EXCEPT !.kind = "clear", !.st = "tracking", !.on = s.tracked,
                               !.busy = (s.tracked # {})]
        s1 == [s EXCEPT !.data = NoData, !.ops[o] = op,
                        !.tracked = @ \cup {<<o, "d">>}]
    IN  IF s.tracked = {} THEN pdResume(o, s1) ELSE s1

\* deferToWrites() as call number o.
pdDeferToWrites(o, s) ==
    LET op == [NoCallOp EXCEPT !.kind = "wait", !.st = "tracking", !.on = s.tracked,
                               !.snap = s.data, !.busy = (s.tracked # {})]
        s1 == [s EXCEPT !.ops[o] = op]
    IN  IF s.tracked = {} THEN pdResume(o, s1) ELSE s1

\* A variant of shutdown that does not wait for the lazy writes.
pdShutdownAtOnce(o, s) ==
    LET op == [NoCallOp EXCEPT !.kind = "shutdown", !.st = "tracking",
                               !.snap = s.data, !.busy = (s.tracked # {})]
    IN  pdResume(o, [s EXCEPT !.ops[o] = op, !.closing = TRUE])

\* shutdown() as call number o.
pdShutdown(o, s) ==
    LET op == [NoCallOp EXCEPT !.kind = "shutdown", !.st = "tracking", !.on = s.tracked,
                               !.snap = s.data, !.busy = (s.tracked # {})]
        s1 == [s EXCEPT !.ops[o] = op, !.closing = TRUE]
    IN  IF s.tracked = {} THEN pdResume(o, s1) ELSE s1

\* transaction(self, f, ...) in the worker thread, by what f is: load,
\* insert, update, names or delete of the item store's Transactor. An insert
\* of a row that exists raises; an update of a row that does not exist
\* changes nothing.
pdTransaction(o, s) ==
    LET op == s.ops[o]
        k  == op.key
        s1 == [s EXCEPT !.ops[o].st = "ran"]
    IN  IF s.conn # "open" THEN [s EXCEPT !.ops[o].st = "raised"]
        ELSE CASE op.phase = "load" -> [s1 EXCEPT !.ops[o].res = s.db[k]]
               [] op.phase = "insert" ->
                      IF s.db[k] # Missing THEN [s EXCEPT !.ops[o].st = "raised"]
                      ELSE [s1 EXCEPT !.db[k] = op.val]
               [] op.phase = "update" ->
                      IF s.db[k] = Missing THEN s1 ELSE [s1 EXCEPT !.db[k] = op.val]
               [] op.phase = "names" ->
                      [s1 EXCEPT !.ops[o].names = {x \in Keys : s.db[x] # Missing}]
               [] op.phase = "delete" ->
                      [s1 EXCEPT !.db = [x \in Keys |->
                                            IF x \in op.names THEN Missing ELSE s.db[x]]]

\* startup: the broker is running and the lock is released.
PdStarted ==
    /\ pd.lock = StartupHolds
    /\ pd' = pdRelease([pd EXCEPT !.running = TRUE])
    /\ UNCHANGED <<brokerVars, itr, fac, two>>

\* A caller assigns a value to a key.
PdSetitem(k, v) ==
    /\ pd.n < MaxOp /\ ~pd.closing
    /\ pd' = pdSetitem(pd.n + 1, k, v, [pd EXCEPT !.n = @ + 1])
    /\ UNCHANGED <<brokerVars, itr, fac, two>>

\* A caller calls clear().
PdClear ==
    /\ pd.n < MaxOp /\ ~pd.closing
    /\ pd' = pdClear(pd.n + 1, [pd EXCEPT !.n = @ + 1])
    /\ UNCHANGED <<brokerVars, itr, fac, two>>

\* A caller calls deferToWrites().
PdDeferToWrites ==
    /\ pd.n < MaxOp /\ ~pd.closing
    /\ pd' = pdDeferToWrites(pd.n + 1, [pd EXCEPT !.n = @ + 1])
    /\ UNCHANGED <<brokerVars, itr, fac, two>>

\* A caller calls shutdown(), the last call made on the dictionary.
PdShutdown ==
    /\ pd.n < MaxOp /\ ~pd.closing
    /\ pd' = pdShutdown(pd.n + 1, [pd EXCEPT !.n = @ + 1])
    /\ UNCHANGED <<brokerVars, itr, fac, two>>

\* The worker thread runs the next task of the queue.
PdRun ==
    /\ pd.q # << >>
    /\ pd' = pdTransaction(Head(pd.q), [pd EXCEPT !.q = Tail(@)])
    /\ UNCHANGED <<brokerVars, itr, fac, two>>

\* The result of a transaction comes back to doTransaction in the reactor:
\* the lock is released, and then the Deferred of the transaction fires,
\* with the result or with the failure.
PdDeliver(o) ==
    /\ pd.ops[o].st \in {"ran", "raised"}
    /\ pd' = IF pd.ops[o].st = "ran"
              THEN pdCallbacks(o, pdRelease(pd))
              ELSE pdFailed(o, pdRelease(pd))
    /\ UNCHANGED <<brokerVars, itr, fac, two>>

\* The queue has run what it held and stops: the shutdown() handle resolves.
PdQueueStopped ==
    /\ pd.qst = "stopping"
    /\ pd.q = << >>
    /\ pd' = [pd EXCEPT !.qst = "stopped",
                         !.ops = [o \in Ops |-> IF pd.ops[o].st = "kill"
                                                 THEN [pd.ops[o] EXCEPT !.st = "done"]
                                                 ELSE pd.ops[o]]]
    /\ UNCHANGED <<brokerVars, itr, fac, two>>

\* The rows the dictionary's group has in the database at the start.
PdInit ==
    /\ Started
    /\ engineName = "sqlite"
    /\ itr = NoIteration
    /\ fac = NoFactory
    /\ two = NoPair
    /\ pd \in {[DictIdle EXCEPT !.db = f] : f \in [Keys -> {Missing, OldValue}]}

PdNext ==
    \/ PdStarted
    \/ \E k \in Keys, v \in Values : PdSetitem(k, v)
    \/ PdClear
    \/ PdDeferToWrites
    \/ PdShutdown
    \/ PdRun
    \/ \E o \in Ops : PdDeliver(o)
    \/ PdQueueStopped

PdSpec == PdInit /\ [][PdNext]_vars

----
\* What the connection saw, read from the log.

Count(ev, t) == Cardinality({i \in 1..Len(log) : log[i] = <<ev, t>>})

Tasks == Txns \cup {FirstTask}

\* The transactions that have begun and neither committed nor rolled back.
Open == {t \in Tasks : Count("begin", t) > Count("commit", t) + Count("rollback", t)}

TopLevel(r) == req[r].parent = 0 /\ req[r].st \notin {"new", "reserved"}

\* The call's handle has resolved after its transaction ran, and with what
\* its function did: a success if it returned, a failure if it raised.
ResolvedOwn(r) ==
    /\ req[r].st = "done"
    /\ Count("begin", r) = 1
    /\ req[r].fret \in {"returned", "raised"}
    /\ req[r].out = IF req[r].fret = "returned" THEN "ok" ELSE "fail"

----
\* C1: a transact call whose transaction has begun sees exactly one of
\* commit and rollback on it, never both, and sees it before the call's
\* handle resolves: commit if the function returned, rollback if it raised.
EnvelopeOnce ==
    \A r \in Txns :
       /\ Count("begin", r) <= 1
       /\ Count("commit", r) + Count("rollback", r) <= Count("begin", r)
       /\ (req[r].st \in {"posted", "done"} /\ Count("begin", r) = 1) =>
             /\ Count("commit", r) + Count("rollback", r) = 1
             /\ req[r].fret = "returned" <=> Count("commit", r) = 1
             /\ req[r].fret = "raised" <=> Count("rollback", r) = 1

\* One call has resolved after a commit and another after a rollback.
EnvelopeOnceWitness ==
    \E a, b \in Txns :
       /\ req[a].st = "done" /\ Count("commit", a) = 1
       /\ req[b].st = "done" /\ Count("rollback", b) = 1

\* C2: at most one transaction is between its begin and its commit or
\* rollback, and every row written and not yet committed was written by
\* that transaction (or by a call nested in it).
Serialized ==
    /\ Cardinality(Open) <= 1
    /\ \A t \in Tasks : Count("commit", t) + Count("rollback", t) <= Count("begin", t)
    /\ \A x \in pending :
          \E t \in Open : x = t \/ (x \in Txns /\ req[x].parent = t)

\* One transaction is open on the worker while another waits in the queue.
SerializedWitness ==
    \E a, b \in Txns :
       /\ a # b
       /\ Open = {a}
       /\ a \in pending
       /\ req[b].st = "queued"

\* C3: transactions begin (and so commit) in the order of their priority,
\* and in the order of their calls among equal priorities: when a
\* transaction begins, every call still waiting has a worse priority, or the
\* same priority and a later call.
PriorityThenFifo ==
    \A r \in Txns :
       \A b \in req[r].behind :
          \/ priority(req[b].opt) > priority(req[r].opt)
          \/ (priority(req[b].opt) = priority(req[r].opt) /\ b > r)

\* C4: when the function of a transact call raises, the transaction is
\* rolled back before the result goes back, the handle resolves with a
\* failure, the call no longer holds the lock, its row is never committed,
\* and a later call whose function returns on the open connection commits.
RaiseRollsBack ==
    \A r \in Txns :
       (TopLevel(r) /\ req[r].fret = "raised" /\ req[r].st \in {"posted", "done"}) =>
          /\ Count("rollback", r) = 1
          /\ Count("commit", r) = 0
          /\ req[r].out = "fail"
          /\ r \notin committed
          /\ req[r].st = "done" =>
                /\ holder # [kind |-> "txn", id |-> r]
                /\ \A n \in Txns :
                      (/\ n > r
                       /\ TopLevel(n)
                       /\ req[n].st = "done"
                       /\ req[n].fret = "returned"
                       /\ connection = "open") =>
                          /\ req[n].out = "ok"
                          /\ n \in committed

\* A call has failed and a call made after it has committed and resolved.
RaiseRollsBackWitness ==
    \E r, n \in Txns :
       /\ n > r
       /\ TopLevel(r) /\ req[r].st = "done" /\ req[r].fret = "raised"
       /\ Count("rollback", r) = 1
       /\ TopLevel(n) /\ req[n].st = "done" /\ req[n].out = "ok"
       /\ n \in committed

\* C5: a transact-decorated method called from inside a transaction of the
\* broker runs at once as part of that transaction: it is never queued and
\* has no begin, commit or rollback of its own, its caller gets its plain
\* result, and when it raises the outer transaction is rolled back and
\* neither row is committed.
NestedRunsInline ==
    \A c \in Txns :
       req[c].parent # 0 =>
          LET p == req[c].parent
          IN  /\ req[c].st \in {"reserved", "direct"}
              /\ Count("begin", c) = 0
              /\ Count("commit", c) = 0
              /\ Count("rollback", c) = 0
              /\ req[c].st = "direct" =>
                    /\ req[c].out \in {"plain", "raised"}
                    /\ Count("begin", p) = 1
                    /\ req[c].out = "raised" => req[p].fret = "raised"
                    /\ req[p].st \in {"posted", "done"} =>
                          /\ Count("commit", p) + Count("rollback", p) = 1
                          /\ req[c].out = "raised" =>
                                /\ Count("rollback", p) = 1
                                /\ p \notin committed
                                /\ c \notin committed
                          /\ p \in committed <=> c \in committed

\* A nested call has raised and its outer call has resolved, rolled back.
NestedRunsInlineWitness ==
    \E c \in Txns :
       /\ req[c].parent # 0
       /\ req[c].st = "direct"
       /\ req[c].out = "raised"
       /\ req[req[c].parent].st = "done"
       /\ Count("rollback", req[c].parent) = 1

\* C6: the first transaction begins at most once, runs on the worker in a
\* begin/commit envelope of its own, has run exactly once when the startup
\* is done, and has committed before any regular transaction is queued or
\* begins.
FirstBeforeAll ==
    /\ Count("begin", FirstTask) <= 1
    /\ Count("commit", FirstTask) + Count("rollback", FirstTask) <= Count("begin", FirstTask)
    /\ FirstTask \in pending => (wk.task = FirstTask /\ pending = {FirstTask})
    /\ spc = "done" => Count("commit", FirstTask) = 1
    /\ \A r \in Txns :
          req[r].st \in {"queued", "exec", "posted"} => Count("commit", FirstTask) = 1
    /\ \A i \in 1..Len(log) :
          (log[i][1] = "begin" /\ log[i][2] \in Txns) =>
             \E j \in 1..(i - 1) : log[j] = <<"commit", FirstTask>>

\* Two calls were made before the startup was done and one has begun since.
FirstBeforeAllWitness ==
    /\ \A r \in Txns : req[r].early
    /\ \E r \in Txns : Count("begin", r) = 1
    /\ Count("commit", FirstTask) = 1

HeldCallRuns ==
    \A r \in Txns :
       (TopLevel(r) /\ req[r].early) =>
          /\ spc # "done" => req[r].st = "gate"
          /\ req[r].st = "done" => ResolvedOwn(r)

\* C8, what the code does keep: the call is held at the lock until the
\* startup is done; once the startup has succeeded it eventually runs and
\* resolves with what its function did, unless shutdown() has closed the
\* connection first, which on a singleton broker never happens before such
\* a call has resolved.
HeldThenRuns ==
    /\ [](\A r \in Txns :
             (TopLevel(r) /\ req[r].early /\ spc # "done") => req[r].st = "gate")
    /\ [](\A r \in Txns :
             (TopLevel(r) /\ req[r].early /\ singleton = "yes" /\ connection = "closed")
                => ResolvedOwn(r))
    /\ \A r \in Txns :
          (TopLevel(r) /\ req[r].early /\ spc = "done")
             ~> (ResolvedOwn(r) \/ connection = "closed")

\* A call made before the startup was done has run and resolved with a success.
HeldThenRunsWitness ==
    \E r \in Txns :
       /\ TopLevel(r)
       /\ req[r].early
       /\ ResolvedOwn(r)
       /\ req[r].out = "ok"

\* C9: when the startup hook or the first transaction has failed, the
\* running flag is false, the lock is still held by the startup, and no
\* regular transaction has been queued for the worker or has begun.
StartupFailureKeepsGate ==
    spc \in {"firstFailed", "failed"} =>
       /\ ~running
       /\ locked
       /\ holder.kind = "startup"
       /\ \A r \in Txns :
             /\ req[r].st \in {"new", "reserved", "gate"}
             /\ Count("begin", r) = 0

\* The first transaction was rolled back, the startup has failed, a call
\* waits at the lock and a shutdown() call has returned.
StartupFailureKeepsGateWitness ==
    /\ spc = "failed"
    /\ Count("rollback", FirstTask) = 1
    /\ \E r \in Txns : req[r].st = "gate"
    /\ shut[1] = "done"

\* C10: however many shutdown() calls are made, one after another or
\* overlapping, the connection is closed at most once, and a broker whose
\* connection has been closed is not running. (shutdown() has no path that
\* raises: a call either does its work or finds the flag false and returns.)
ShutdownClosesOnce ==
    /\ Count("close", 0) <= 1
    /\ connection = "closed" => (~running /\ Count("close", 0) = 1)

\* A second shutdown() call was made while the first waited for the lock;
\* both have resolved and the connection was closed once.
ShutdownClosesOnceWitness ==
    /\ \A k \in Shutdowns : shut[k] = "done"
    /\ Count("close", 0) = 1
    /\ qstate = "stopped"

\* C11, as stated: when shutdown() has closed the connection, every
\* transact call made before shutdown() was called has had its transaction
\* begun and committed or rolled back.
CloseAfterSubmitted ==
    connection = "closed" =>
       \A r \in Txns :
          (TopLevel(r) /\ ~req[r].late) =>
             /\ Count("begin", r) = 1
             /\ Count("commit", r) + Count("rollback", r) = 1

\* C12, as stated: at the moment the connection is closed no transaction is
\* between its begin and its commit or rollback: every begin that the
\* connection saw before the close has its commit or rollback before it too.
CloseNotMidFlight ==
    \A i \in 1..Len(log) :
       log[i][1] = "close" =>
          \A t \in Tasks :
             Cardinality({j \in 1..(i - 1) : log[j] = <<"begin", t>>})
                = Cardinality({j \in 1..(i - 1) :
                                  log[j] = <<"commit", t>> \/ log[j] = <<"rollback", t>>})

\* C13, as stated: the function of a transact or deferToQueue call made
\* after shutdown() has cleared the running flag is never called, and the
\* call's handle, once it has resolved, carries a failure.
LateCallFailsFast ==
    /\ \A r \in Txns :
          (TopLevel(r) /\ req[r].late) =>
             /\ req[r].runs = 0
             /\ req[r].st = "done" => req[r].out = "fail"
    /\ \A k \in Auxs :
          (aux[k].kind = "defer" /\ aux[k].late) =>
             /\ aux[k].runs = 0
             /\ aux[k].st = "done" => aux[k].out = "fail"

\* The steps of the queue's worker thread; every other step is the reactor's.
WorkerStep == WorkerStart \/ WorkerCall \/ WorkerBody \/ WorkerEnd

\* C14, as stated: every step in which the connection sees an operation (a
\* begin, a row written, a commit, a rollback, the close of shutdown) is a
\* step of the worker thread.
ConnectionOpsInWorker ==
    [][(log' # log \/ pending' # pending) => WorkerStep]_vars

\* The shutdown() call k was made on a broker that had started: the startup
\* is done, the flag has been cleared, and the call that cleared it, if it
\* is still at work, was made before k.
MadeOnStarted(k) ==
    /\ spc = "done"
    /\ ~running
    /\ \A j \in Shutdowns : shut[j] \in {"gate", "killing"} => j < k

\* C15, as stated: when the handle of a shutdown() call made on a started
\* broker has resolved, no transaction is queued or executing, the
\* connection is closed and the queue has stopped.
ShutdownResolvesLast ==
    \A k \in Shutdowns :
       (shut[k] = "done" /\ MadeOnStarted(k)) =>
          /\ connection = "closed"
          /\ qstate = "stopped"
          /\ heap = << >>
          /\ wk = Idle

\* C16, as stated: in every step in which the handle of a waitUntilRunning()
\* call resolves, the startup sequence has completed and the running flag
\* is true.
WaitResolvesRunning ==
    [][\A k \in Auxs :
          (aux'[k].kind = "wait" /\ aux[k].st # "done" /\ aux'[k].st = "done") =>
             (spc' = "done" /\ running')]_vars

\* C17, as stated: a connect() call made before the startup had completed
\* has resolved with a connection only if the startup sequence has completed.
ConnectAfterStartup ==
    \A k \in Auxs :
       (aux[k].kind = "connect" /\ aux[k].early /\ aux[k].st = "done" /\ aux[k].out = "ok")
          => spc = "done"

\* C17, amended: a connect() call made before the broker had its queue is
\* held at the lock until the startup sequence has completed, and has
\* resolved with a connection only if it has completed.
ConnectWithoutQueueWaits ==
    \A k \in Auxs :
       (aux[k].kind = "connect" /\ aux[k].noq) =>
          /\ spc # "done" => aux[k].st = "gate"
          /\ (aux[k].st = "done" /\ aux[k].out = "ok") => spc = "done"

\* A connect() call made before the broker had its queue has resolved with
\* a connection.
ConnectWithoutQueueWaitsWitness ==
    \E k \in Auxs :
       /\ aux[k].kind = "connect"
       /\ aux[k].noq
       /\ aux[k].st = "done"
       /\ aux[k].out = "ok"

\* C18: the function of a transact call (execute included) or of a
\* deferToQueue call is called at most once and the call's handle resolves at
\* most once, exactly when the call is done; a call that has failed has not
\* had its function called a second time. A nested call has no handle.
AtMostOnce ==
    /\ \A r \in Txns :
          /\ req[r].runs <= 1
          /\ req[r].fired <= 1
          /\ req[r].fired = 1 <=> req[r].st = "done"
          /\ req[r].parent # 0 => req[r].fired = 0
    /\ \A k \in Auxs :
          /\ aux[k].runs <= 1
          /\ aux[k].fired <= 1
          /\ aux[k].fired = 1 <=> aux[k].st = "done"

\* A transact call whose function raised and a deferToQueue call whose
\* function raised have both resolved with a failure, each function called once.
AtMostOnceWitness ==
    /\ \E r \in Txns :
          /\ TopLevel(r) /\ req[r].st = "done" /\ req[r].out = "fail"
          /\ req[r].runs = 1 /\ req[r].fired = 1
    /\ \E k \in Auxs :
          /\ aux[k].kind = "defer" /\ aux[k].st = "done" /\ aux[k].out = "fail"
          /\ aux[k].runs = 1 /\ aux[k].fired = 1

\* C19, as stated: when a transact call made with the ignore keyword has
\* resolved and its function raised, the transaction was rolled back and the
\* handle carries no failure.
IgnoreSwallows ==
    \A r \in Txns :
       (TopLevel(r) /\ req[r].opt.ignore /\ req[r].fret = "raised" /\ req[r].st = "done") =>
          /\ Count("rollback", r) = 1
          /\ req[r].out # "fail"

\* The worker has called the failing function of a deferToQueue call.
DeferRaised(k) ==
    aux[k].kind = "defer" /\ aux[k].body = "raise" /\ aux[k].runs = 1

\* C20: when the function of a deferToQueue call has raised, that call's
\* result is a failure, and no transact call has been given a result that
\* is not its own: every transact call that is past the queue has had its
\* transaction begun by the worker or has found the connection closed by
\* shutdown(), and every one that has resolved with the connection still
\* open has resolved with what its own function did.
DeferFailureIsOwn ==
    \A k \in Auxs :
       DeferRaised(k) =>
          /\ aux[k].out = "fail"
          /\ aux[k].st \in {"posted", "done"}
          /\ \A r \in Txns :
                /\ (TopLevel(r) /\ req[r].st \in {"posted", "done"} /\ connection = "open")
                      => Count("begin", r) = 1
                /\ (TopLevel(r) /\ req[r].st = "done" /\ connection = "open")
                      => ResolvedOwn(r)

\* The function of a deferToQueue call has raised and the call has resolved
\* with the failure; one transact call has committed and resolved, and the
\* worker, which runs one task at a time, is now executing the transaction
\* of another.
DeferFailureIsOwnWitness ==
    \E k \in Auxs :
       /\ DeferRaised(k)
       /\ aux[k].st = "done"
       /\ \E a, b \in Txns :
             /\ TopLevel(a) /\ ResolvedOwn(a) /\ req[a].out = "ok"
             /\ TopLevel(b) /\ req[b].st = "exec" /\ wk.task = b

----
\* Row iteration: what an iteration is and how it ended.

\* Pull mode: the caller gets a Deferator (or the empty list) and asks for
\* the rows itself.
PullMode(t) == t.api # "none" /\ t.consumer = "none" /\ ~t.asList
\* Push mode: the rows are written to the caller's consumer.
PushMode(t) == t.api # "none" /\ t.consumer # "none"
\* The caller was told that no row is left.
Ended(t) == t.eos \/ t.out = "empty"

\* C21: a pull-mode iteration in which no fetch raises hands over the rows
\* of its result in cursor order, each one once; the result holds the rows
\* that were committed when the select ran (all those committed when the
\* call was made); the call does not fail; the end of the sequence is
\* signalled after exactly the rows of the result, and never more than one
\* fetch past the last row is made.
PullRoundTrip ==
    \A i \in Iters :
        LET t == itr.its[i]
        IN (PullMode(t) /\ ~t.broken) =>
              /\ t.got = [n \in 1..Len(t.got) |-> n]
              /\ Len(t.got) <= t.snap
              /\ t.fetches <= t.snap + 1
              /\ t.out # "fail"
              /\ (t.st \in {"setup", "open", "done"}) =>
                     (t.began <= t.snap /\ t.snap <= itr.table)
              /\ Ended(t) => Len(t.got) = t.snap

PullRoundTripWitness ==
    \E i \in Iters :
        /\ PullMode(itr.its[i])
        /\ itr.its[i].api = "selectorator"
        /\ itr.its[i].eos
        /\ itr.its[i].began = MaxRows
        /\ Len(itr.its[i].got) = MaxRows

PausedConsumerSnapshot ==
    \A i \in Iters :
        LET t == itr.its[i]
        IN (PushMode(t) /\ t.consumer = "slow" /\ ~t.racing /\ ~t.broken
              /\ t.out = "consumer") =>
              Len(t.got) = t.began

\* C24: in push mode no row fetch is handed to the queue while the producer
\* is paused, and none is on the queue while it is paused; an iteration
\* that the producer ran to its end without a failure has written every row
\* of its result to the consumer.
PausedProducerFetchesNothing ==
    \A i \in Iters :
        LET t == itr.its[i]
        IN PushMode(t) =>
              /\ t.pausedFetch = 0
              /\ t.paused => Inflight(i, itr) = 0
              /\ (t.out = "consumer" /\ ~t.broken) => Len(t.got) = t.snap

\* The slow consumer was paused and resumed after every row and has got
\* all three rows.
PausedProducerFetchesNothingWitness ==
    \E i \in Iters :
        /\ itr.its[i].consumer = "slow"
        /\ itr.its[i].out = "consumer"
        /\ ~itr.its[i].paused
        /\ Len(itr.its[i].got) = 3

\* C25: an iteration in which a row fetch raised is not told that the
\* sequence ended normally: a pull-mode caller gets no end-of-sequence, and
\* the call of a push-mode iteration does not resolve with its consumer.
FetchFailureSurfaces ==
    \A i \in Iters :
        LET t == itr.its[i]
        IN t.broken => (~Ended(t) /\ t.out # "consumer")

\* C26: the result cursor of an iteration, and the connection that
\* selectorator opened for it, are never closed twice, and they have been
\* closed once when the iteration is over, however it ended.
CleanupOnce ==
    \A i \in Iters :
        LET t == itr.its[i]
        IN /\ t.rpClosed <= 1
           /\ t.connClosed <= t.connOpened
           /\ (t.api # "none" /\ t.st = "done") =>
                  (t.rpClosed = 1 /\ t.connClosed = t.connOpened)

\* C27: when a call through a transact method is over and a fetch raised or
\* the call failed, the call no longer holds the broker's lock.
IterationFailureScoped ==
    \A i \in Iters :
        LET t == itr.its[i]
        IN (t.api = "transact" /\ t.st = "done" /\ (t.broken \/ t.out = "fail")) =>
              itr.lock # i

----
\* The Factory and the brokers that share queues.

\* C28: the queues made for one url that have not been killed are one
\* queue, and the brokers that were given a queue for the same url, not
\* killed since, were given the same one.
SameUrlSameQueue ==
    /\ \A n, m \in QueueIds :
           (fac.qs[n].st = "running" /\ fac.qs[m].st = "running"
               /\ fac.qs[n].url = fac.qs[m].url) => n = m
    /\ \A b, c \in Brokers :
           (fac.br[b].q # NoQueue /\ fac.br[c].q # NoQueue
               /\ fac.br[b].url = fac.br[c].url
               /\ fac.qs[fac.br[b].q].st = "running"
               /\ fac.qs[fac.br[c].q].st = "running") =>
               fac.br[b].q = fac.br[c].q

\* C29: the queue of a running broker that has not been shut down is
\* running, whatever the other brokers that share it have done.
SharedQueueOutlivesOne ==
    \A b \in Brokers :
        (fac.br[b].running /\ fac.br[b].sd = "new") =>
            fac.qs[fac.br[b].q].st = "running"

KilledQueueLeavesCache ==
    /\ [](\A u \in Urls :
             fac.queues[u] # NoQueue =>
                 (fac.qs[fac.queues[u]].st = "running"
                     /\ fac.qs[fac.queues[u]].url = u))
    /\ [](\A b \in Brokers :
             fac.br[b].afterKill =>
                 ~(fac.br[b].st = "dead" /\ fac.br[b].conn = "none"))
    /\ \A b \in Brokers :
           (fac.br[b].afterKill /\ fac.br[b].st \in {"waitq", "connect"})
               ~> (fac.br[b].conn = "open")

\* A broker was shut down and its queue has stopped; a second broker of the
\* same url, made after the kill, has another queue, which is running and
\* cached, and has its connection.
KilledQueueLeavesCacheWitness ==
    \E b, c \in Brokers :
        /\ fac.br[b].url = fac.br[c].url
        /\ fac.br[b].sd = "done"
        /\ fac.br[b].q # NoQueue
        /\ fac.br[c].q # NoQueue
        /\ fac.qs[fac.br[b].q].st = "stopped"
        /\ fac.br[c].afterKill
        /\ fac.br[c].q # fac.br[b].q
        /\ fac.queues[fac.br[c].url] = fac.br[c].q
        /\ fac.qs[fac.br[c].q].st = "running"
        /\ fac.br[c].conn = "open"

\* C31: a getGlobal call (or a Factory call without a url) made when there
\* is a global queue has resolved, at the call, with that queue; and the
\* global queue is the queue of a setGlobal call that has resolved.
GlobalIsShared ==
    /\ \A k \in Gets :
           fac.gets[k].at # NoQueue =>
               (fac.gets[k].st = "done" /\ fac.gets[k].out = fac.gets[k].at)
    /\ (\E j \in Sets : fac.sets[j].st = "done") =>
           \E j \in Sets : fac.sets[j].st = "done" /\ fac.sets[j].q = fac.globalQueue

\* Both getGlobal calls were made after setGlobal had resolved and both
\* have its queue.
GlobalIsSharedWitness ==
    /\ \A k \in Gets : fac.gets[k].st = "done" /\ fac.gets[k].at # NoQueue
                           /\ fac.gets[k].out = fac.globalQueue
    /\ \E j \in Sets : fac.sets[j].st = "done" /\ fac.sets[j].q = fac.globalQueue

\* C34: a kill call made with the global queue changes neither the queues
\* nor the globalQueue reference, and a queue that was killed and is the
\* global queue is running.
KillSparesGlobal ==
    /\ [](\A n \in QueueIds :
             (n \in fac.killed /\ n = fac.globalQueue) => fac.qs[n].st = "running")
    /\ [][\A n \in QueueIds :
             (n \notin fac.killed /\ n \in fac'.killed /\ n = fac.globalQueue) =>
                 (fac'.globalQueue = n /\ fac'.qs = fac.qs)]_vars

\* kill was called with the global queue, and with a queue that had been
\* the global queue before and is shut down by it.
KillSparesGlobalWitness ==
    \E n, m \in QueueIds :
        /\ n = fac.globalQueue
        /\ n \in fac.killed
        /\ fac.qs[n].st = "running"
        /\ m \in fac.killed
        /\ fac.qs[m].st = "stopped"

\* C40: no getGlobal handle fails, and none is still waiting when there is
\* a global queue: setGlobal's completion resolves the handles asked for
\* before, with the global queue.
GlobalHandlesResolve ==
    \A k \in Gets :
        /\ fac.gets[k].st # "failed"
        /\ fac.gets[k].st = "pending" => fac.globalQueue = NoQueue
        /\ fac.gets[k].st = "done" => fac.gets[k].out \in {fac.sets[j].q : j \in Sets}

\* ---- C32 ----
\* The transact calls given both a consumer and raw=True.
Refused(r) == req[r].opt.consumer /\ req[r].opt.raw /\ req[r].st # "new"

\* C32: a transact call given both a consumer and raw=True raises ValueError
\* in its caller at once: the step of the call leaves the lock, its holder
\* and its waiters, the queue, the worker, the running flag, the cached
\* singleton answer, the connection and the startup where they were; the call
\* gets no handle, never waits at the lock, never is in the queue, and its
\* method never runs.
ConsumerAndRawRefused ==
    /\ [](\A r \in Txns : Refused(r) =>
             /\ req[r].st = "refused"
             /\ req[r].out = "ValueError"
             /\ req[r].runs = 0 /\ req[r].fired = 0
             /\ holder # [kind |-> "txn", id |-> r]
             /\ \A i \in 1..Len(waiting) : waiting[i] # [kind |-> "txn", id |-> r]
             /\ \A i \in 1..Len(heap) : heap[i].id # r
             /\ wk.task # r
             /\ Count("begin", r) = 0)
    /\ [][\A r \in Txns :
             (req[r].st = "new" /\ Refused(r)') =>
                 UNCHANGED <<engineName, spc, running, singleton, qstate, connection,
                             locked, holder, waiting, heap, wk, aux, shut, pending,
                             committed, log>>]_vars

\* A call with a consumer and raw=True was refused by a running broker whose
\* lock was free and which had not yet asked whether its engine is SQLite.
ConsumerAndRawRefusedWitness ==
    \E r \in Txns :
       Refused(r) /\ running /\ ~locked /\ singleton = "unset" /\ heap = << >>

\* ---- C38 ----
\* C38: once a shutdown() call has resolved, the running flag is false, in
\* that state and in every later one, whether the call was made before or
\* after the startup had completed.
ShutdownIsFinal ==
    \A k \in Shutdowns : shut[k] = "done" => ~running

\* ---- C39 ----
\* C39: a transact call's function is run directly, without a begin and a
\* commit of its own, if and only if the call was made from inside an
\* executing transaction of the broker it was made on; a call made on one
\* broker from inside a transaction of the other is not run directly.
NestingIsPerBroker ==
    \A c \in Calls :
       two.calls[c].st \notin {"new", "reserved"} =>
          (two.calls[c].ranDirect <=> two.calls[c].inside = two.calls[c].on)

\* ---- C35 ----
\* The calls made after call o.
Later(o) == {x \in Ops : x > o /\ pd.ops[x].kind # "none"}

\* Only assignments were made before call o.
OnlySets(o) == \A x \in Ops : x < o => pd.ops[x].kind = "set"

\* C35: when only assignments have been made on the dictionary and a
\* deferToWrites() made after them has resolved, the database holds for
\* every assigned key the last value assigned to it, which is the value of
\* the in-memory dictionary, as long as no later call was made.
LastValuePersists ==
    \A w \in Ops :
       (pd.ops[w].kind = "wait" /\ pd.ops[w].st = "done" /\ OnlySets(w) /\ Later(w) = {}) =>
           \A k \in Keys :
              pd.ops[w].snap[k] # Missing =>
                  pd.db[k] = pd.ops[w].snap[k] /\ pd.data[k] = pd.db[k]

\* ---- C36 ----
\* C36: when assignments (and deferToWrites() calls) were made on the
\* dictionary and a shutdown() call made after them has resolved, every lazy
\* write that was tracked when it was made has completed, and the database
\* holds, for every key that had a value when shutdown() was called, that
\* value: the last one assigned to the key, which a new PersistentDict with
\* the same ID reads.
ShutdownKeepsValues ==
    \A h \in Ops :
       (/\ pd.ops[h].kind = "shutdown" /\ pd.ops[h].st = "done"
        /\ \A x \in Ops : x < h => pd.ops[x].kind \in {"set", "wait"}) =>
           /\ \A x \in Ops : x < h => pd.ops[x].st = "done"
           /\ \A k \in Keys :
                 pd.ops[h].snap[k] # Missing => pd.db[k] = pd.ops[h].snap[k]

\* ---- C37 ----
\* The dictionary's group has no row in the database.
NoRows == \A k \in Keys : pd.db[k] = Missing

\* C37: clear() deletes the rows only after the lazy writes pending when it
\* was called have completed: while it waits for them it has asked the
\* database for nothing, and when it was called with assignments pending, no
\* assignment followed it, and a deferToWrites() made after it has resolved,
\* the group has no row in the database.
ClearAfterWrites ==
    \A c \in Ops :
       pd.ops[c].kind = "clear" =>
          /\ (\E x \in Ops : x < c /\ pd.ops[x].st \notin {"done", "failed"}) =>
                 /\ pd.ops[c].st = "tracking"
                 /\ pd.ops[c].phase = "none"
          /\ \A w \in Ops :
                (/\ w > c /\ pd.ops[w].kind = "wait" /\ pd.ops[w].st = "done"
                 /\ pd.ops[c].busy
                 /\ \A x \in Ops : x > c => pd.ops[x].kind # "set") => NoRows

\* clear() was called while an assignment to a key that has a row was
\* pending; the row was updated, a later deferToWrites() has resolved.
ClearAfterWritesWitness ==
    \E c \in Ops, w \in Ops, x \in Ops :
       /\ x < c /\ c < w
       /\ pd.ops[x].kind = "set" /\ pd.ops[x].phase = "update" /\ pd.ops[x].st = "done"
       /\ pd.ops[c].kind = "clear" /\ pd.ops[c].busy /\ pd.ops[c].st = "done"
       /\ pd.ops[c].names # {}
       /\ pd.ops[w].kind = "wait" /\ pd.ops[w].busy /\ pd.ops[w].st = "done"
       /\ \A y \in Ops : y > c => pd.ops[y].kind # "set"

====
